---- MODULE Spec2Model ----
(***************************************************************************)
(* A model of the search trees of package containers/internal/tree:        *)
(* BinarySearchTree (binarySearchTree.go), AVLTree (avlTree.go) and        *)
(* TwoThreeTree (twoThreeTree.go); of the hash table of package hashtbl,   *)
(* the maps of package dictionary, the queues and randomizers of package   *)
(* queue and the lists of package list.                                    *)
(*                                                                         *)
(* Nodes live in a heap: a sequence of node records, a pointer being an    *)
(* index into it and NIL the nil pointer.  Every Go method that mutates    *)
(* nodes through pointers becomes an operator from a heap to a heap, so    *)
(* fields that the code leaves behind (a stale value2 or right link of a   *)
(* 2-node, for instance) stay in the state exactly as the code leaves      *)
(* them.  After each operation the heap is garbage-collected and its       *)
(* addresses are renumbered in traversal order; the code never observes    *)
(* an address except through pointer equality, which renumbering keeps.    *)
(***************************************************************************)
EXTENDS Integers, Sequences, FiniteSets, TLC

\* ---------------------------------------------------------------- bounds
\* Keys are 1..n and payloads 1..p.  Each tree type is run in a small universe
\* with several payloads per key and in a large one with a single payload.
BSTKeys == 5
AVLKeys == 5
AVLManyKeys == 11
T23ExactKeys == 4
T23Keys == 6
T23ManyKeys == 13
NumPayloads == 2
\* Add is not taken once count exceeds the number of keys by MaxExtra.
MaxExtra == 1
\* The runs with external iterators: the keys of the search trees, the keys of
\* the 2-3 tree, and for trees made by buildBinaryTree the number of distinct
\* values and the largest number of nodes.
IterKeys == 5
IterT23Keys == 9
BuiltValues == 2
MaxBuilt == 4
\* The maps run side by side: keys 1..MapKeys, values 1..MapValues.
MapKeys == 3
MapValues == 2
\* The hash table on its own: NewHashTable(HashSlots), keys 0..HashKeys and
\* values 1..HashValues.
HashSlots == 3
HashKeys == 6
HashValues == 2
\* The queues and randomizers: at most MaxQueue elements inside, elements 1..QueueValues.
MaxQueue == 5
QueueValues == 2
\* The lists: at most MaxList elements, elements 1..ListValues.
MaxList == 5
ListValues == 2
\* Two iterators over one tree: the keys of the binary and of the 2-3 tree.
TwoKeys == 4
TwoT23Keys == 5
\* The three trees given the same calls: their keys.
ThreeKeys == 5

\* ---------------------------------------------------------------- values
NIL == 0

\* A nil interface{} value: it has no key, so comparing with it fails.
NilValue == [nil |-> TRUE]

\* KeyValue{key, value} of the tests.
KeyValue(k, p) == [key |-> k, value |-> p]

\* KeyValue.Equal: keys only.
Equal(p, q) == p.key = q.key

\* KeyValue.Less: keys only.
Less(p, q) == p.key < q.key

\* Go's == on two interface values holding KeyValue structs: every field.
SameValue(p, q) == p = q

Max(a, b) == IF a < b THEN b ELSE a

Range(s) == {s[i] : i \in 1..Len(s)}

\* kind, univ: the tree type under test and the universe its inputs come from
\*             (fixed by Init).
\* heap, root, count: the node objects and the tree's root and count fields.
\* stored: for each key, the payload last added and not removed since (0: none).
\* op: the last call made, where the universe logs it: "New", "Add" (new key),
\*     "Replace" (stored key, other payload), "Readd" (stored key, same
\*     payload), "Remove" (stored key), "RemoveMiss" (key not stored), "Clear".
\* iter: the external iterator in use with what its calls returned, NoIter
\*     where there is none.
\* script: the test that a scripted run plays and the calls it still has to
\*     make, NoScript where the run is not scripted.
\* cont: the container under test where it is not a search tree (a hash table,
\*     a queue, a randomizer, the lists), NoCont in the runs of the trees.
VARIABLES kind, univ, heap, root, count, stored, op, iter, script, cont

vars == <<kind, univ, heap, root, count, stored, op, iter, script, cont>>

Kinds == {"BST", "AVL", "T23"}

\* A universe: the number of keys and of payloads, whether the heap is kept
\* exactly (see collect), and whether op records the last call.
Universe(n, p, e, l) == [keys |-> n, payloads |-> p, exact |-> e, log |-> l]

Universes(k) ==
  CASE k = "BST" -> {Universe(BSTKeys, NumPayloads, TRUE, TRUE)}
    [] k = "AVL" -> {Universe(AVLKeys, NumPayloads, TRUE, TRUE),
                     Universe(AVLManyKeys, 1, TRUE, FALSE)}
    [] k = "T23" -> {Universe(T23ExactKeys, NumPayloads, TRUE, TRUE),
                     Universe(T23Keys, NumPayloads, FALSE, TRUE),
                     Universe(T23ManyKeys, 1, FALSE, FALSE)}

Keys == 1..univ.keys

Payloads == 1..univ.payloads

\* ------------------------------------------------- binary tree nodes (btNode)

\* newBTNode: allocate a node; the height field is Go's zero value.
newBTNode(h, v, l, r) ==
  [h |-> Append(h, [value |-> v, left |-> l, right |-> r, height |-> 0]),
   p |-> Len(h) + 1]

\* btNode.contains: exhaustive search comparing values with ==.
RECURSIVE contains(_, _, _)
contains(h, node, e) ==
  \/ SameValue(h[node].value, e)
  \/ (h[node].left # NIL /\ contains(h, h[node].left, e))
  \/ (h[node].right # NIL /\ contains(h, h[node].right, e))

\* btNode.size.
RECURSIVE size(_, _)
size(h, node) ==
  IF node = NIL THEN 0 ELSE 1 + size(h, h[node].left) + size(h, h[node].right)

\* btNode.visitInorder, collecting the visited values.
RECURSIVE visitInorder(_, _)
visitInorder(h, node) ==
  (IF h[node].left # NIL THEN visitInorder(h, h[node].left) ELSE <<>>)
  \o <<h[node].value>>
  \o (IF h[node].right # NIL THEN visitInorder(h, h[node].right) ELSE <<>>)

\* BinaryTree.VisitInorder.
VisitInorder(h, r) == IF r = NIL THEN <<>> ELSE visitInorder(h, r)

\* ------------------------------------------------------- BinarySearchTree

\* The loop of Contains / Get with the two directions exchanged.
RECURSIVE bstGetMirrored(_, _, _)
bstGetMirrored(h, node, v) ==
  IF node = NIL THEN [value |-> NilValue, found |-> FALSE]
  ELSE IF Equal(v, h[node].value) THEN [value |-> h[node].value, found |-> TRUE]
  ELSE IF Less(v, h[node].value) THEN bstGetMirrored(h, h[node].right, v)
  ELSE bstGetMirrored(h, h[node].left, v)

\* The loop of BinarySearchTree.Contains / Get from node: the value found,
\* or NilValue with found = FALSE.
RECURSIVE bstGet(_, _, _)
bstGet(h, node, v) ==
  IF node = NIL THEN [value |-> NilValue, found |-> FALSE]
  ELSE IF Equal(v, h[node].value) THEN [value |-> h[node].value, found |-> TRUE]
  ELSE IF Less(v, h[node].value) THEN bstGet(h, h[node].left, v)
  ELSE bstGet(h, h[node].right, v)

\* The loop of BinarySearchTree.Add from node.
RECURSIVE bstInsert(_, _, _)
bstInsert(h, node, v) ==
  IF Equal(v, h[node].value)
  THEN [h |-> [h EXCEPT ![node].value = v], added |-> FALSE]
  ELSE IF Less(v, h[node].value)
  THEN IF h[node].left = NIL
       THEN LET a == newBTNode(h, v, NIL, NIL)
            IN  [h |-> [a.h EXCEPT ![node].left = a.p], added |-> TRUE]
       ELSE bstInsert(h, h[node].left, v)
  ELSE IF h[node].right = NIL
       THEN LET a == newBTNode(h, v, NIL, NIL)
            IN  [h |-> [a.h EXCEPT ![node].right = a.p], added |-> TRUE]
       ELSE bstInsert(h, h[node].right, v)

\* BinarySearchTree.Add with the count raised on every call.
BSTAddCountsAlways(t, v) ==
  IF t.root = NIL
  THEN LET a == newBTNode(t.h, v, NIL, NIL)
       IN  [h |-> a.h, root |-> a.p, count |-> t.count + 1]
  ELSE [h |-> bstInsert(t.h, t.root, v).h, root |-> t.root, count |-> t.count + 1]

\* BinarySearchTree.Add.
BSTAdd(t, v) ==
  IF t.root = NIL
  THEN LET a == newBTNode(t.h, v, NIL, NIL)
       IN  [h |-> a.h, root |-> a.p, count |-> t.count + 1]
  ELSE LET r == bstInsert(t.h, t.root, v)
       IN  [h |-> r.h, root |-> t.root,
            count |-> IF r.added THEN t.count + 1 ELSE t.count]

\* The search loop of BinarySearchTree.Remove: the target node and its parent.
RECURSIVE bstFind(_, _, _, _)
bstFind(h, target, parent, v) ==
  IF target = NIL THEN [target |-> NIL, parent |-> parent]
  ELSE IF Equal(v, h[target].value) THEN [target |-> target, parent |-> parent]
  ELSE IF Less(v, h[target].value) THEN bstFind(h, h[target].left, target, v)
  ELSE bstFind(h, h[target].right, target, v)

\* BinarySearchTree.attach.
attach(t, parent, child, attached) ==
  IF parent = NIL THEN [t EXCEPT !.root = attached]
  ELSE IF child = t.h[parent].left
       THEN [t EXCEPT !.h[parent].left = attached]
       ELSE [t EXCEPT !.h[parent].right = attached]

\* The successor loop of deleteNode.
RECURSIVE bstSuccessor(_, _, _)
bstSuccessor(h, parent, successor) ==
  IF h[successor].left # NIL
  THEN bstSuccessor(h, successor, h[successor].left)
  ELSE [parent |-> parent, successor |-> successor]

\* BinarySearchTree.deleteNode with the successor's right subtree always put
\* in the left link of the successor's parent.
deleteNodeSplicesLeft(t0, node, parent) ==
  LET t == [t0 EXCEPT !.count = t0.count - 1] IN
  IF t.h[node].left = NIL THEN attach(t, parent, node, t.h[node].right)
  ELSE IF t.h[node].right = NIL THEN attach(t, parent, node, t.h[node].left)
  ELSE LET s  == bstSuccessor(t.h, node, t.h[node].right)
           h1 == [t.h EXCEPT ![node].value = t.h[s.successor].value,
                             ![s.successor].value = t.h[node].value]
       IN  [t EXCEPT !.h = [h1 EXCEPT ![s.parent].left = h1[s.successor].right]]

\* BinarySearchTree.deleteNode.
deleteNode(t0, node, parent) ==
  LET t == [t0 EXCEPT !.count = t0.count - 1] IN
  IF t.h[node].left = NIL THEN attach(t, parent, node, t.h[node].right)
  ELSE IF t.h[node].right = NIL THEN attach(t, parent, node, t.h[node].left)
  ELSE LET s  == bstSuccessor(t.h, node, t.h[node].right)
           h1 == [t.h EXCEPT ![node].value = t.h[s.successor].value,
                             ![s.successor].value = t.h[node].value]
       IN  IF s.parent = node
           THEN [t EXCEPT !.h = [h1 EXCEPT ![s.parent].right = h1[s.successor].right]]
           ELSE [t EXCEPT !.h = [h1 EXCEPT ![s.parent].left = h1[s.successor].right]]

\* BinarySearchTree.Remove.
BSTRemove(t, v) ==
  LET f == bstFind(t.h, t.root, NIL, v)
  IN  IF f.target = NIL THEN t ELSE deleteNode(t, f.target, f.parent)

\* BinarySearchTree.Get.
BSTGet(t, v) == bstGet(t.h, t.root, v)

\* BinarySearchTree.Contains.
BSTContains(t, v) == bstGet(t.h, t.root, v).found

\* ---------------------------------------------------------------- AVLTree

\* A setHeight that looks at the left subtree only.
setHeightFromLeft(h, node) ==
  [h EXCEPT ![node].height =
     (IF h[node].left # NIL THEN h[h[node].left].height ELSE -1) + 1]

\* btNode.setHeight.
setHeight(h, node) ==
  LET leftHeight  == IF h[node].left # NIL THEN h[h[node].left].height ELSE -1
      rightHeight == IF h[node].right # NIL THEN h[h[node].right].height ELSE -1
  IN  IF leftHeight < rightHeight
      THEN [h EXCEPT ![node].height = rightHeight + 1]
      ELSE [h EXCEPT ![node].height = leftHeight + 1]

\* newAVLNode.
newAVLNode(h, v, l, r) ==
  LET a == newBTNode(h, v, l, r) IN [h |-> setHeight(a.h, a.p), p |-> a.p]

\* btNode.balance: stored left height minus stored right height.
balance(h, node) ==
  LET leftHeight  == IF h[node].left # NIL THEN h[h[node].left].height ELSE -1
      rightHeight == IF h[node].right # NIL THEN h[h[node].right].height ELSE -1
  IN  leftHeight - rightHeight

\* --- the statements of a method body, run in order on the heap.  A path
\* names a field as the code writes it from the receiver r:
\* <<"left", "value1">> is r.left.value1, and <<>> is r itself.

\* The value of the field that path names.
RECURSIVE Load(_, _, _)
Load(h, r, path) ==
  IF path = <<>> THEN r ELSE Load(h, h[r][Head(path)], Tail(path))

\* The heap after the field that path names is set to x.
RECURSIVE Store(_, _, _, _)
Store(h, r, path, x) ==
  IF Len(path) = 1 THEN [h EXCEPT ![r][path[1]] = x]
  ELSE Store(h, h[r][path[1]], Tail(path), x)

\* dst = src
Mov(dst, src) == [op |-> "mov", dst |-> dst, src |-> src]
\* dst = x
Put(dst, x) == [op |-> "put", dst |-> dst, x |-> x]
\* dst--
Dec(dst) == [op |-> "dec", dst |-> dst]
\* node.shiftLeft()
ShiftLeft(node) == [op |-> "shiftLeft", node |-> node]
\* node.shiftRight()
ShiftRight(node) == [op |-> "shiftRight", node |-> node]
\* node.setHeight()
SetHeight(node) == [op |-> "setHeight", node |-> node]
\* local := newAVLNode(v, l, r); the local is the heap's last node from here on.
NewAVLNode(v, l, r) == [op |-> "newAVLNode", v |-> v, l |-> l, r |-> r]
\* dst = local
PutLocal(dst) == [op |-> "putLocal", dst |-> dst]

\* twoThreeNode.shiftLeft.
shiftLeft(h, r) ==
  [h EXCEPT ![r].value1 = h[r].value2, ![r].left = h[r].mid, ![r].mid = h[r].right]

\* twoThreeNode.shiftRight.
shiftRight(h, r) ==
  [h EXCEPT ![r].value2 = h[r].value1, ![r].right = h[r].mid, ![r].mid = h[r].left]

\* One statement.
Step(h, r, s) ==
  CASE s.op = "mov" -> Store(h, r, s.dst, Load(h, r, s.src))
    [] s.op = "put" -> Store(h, r, s.dst, s.x)
    [] s.op = "dec" -> Store(h, r, s.dst, Load(h, r, s.dst) - 1)
    [] s.op = "shiftLeft" -> shiftLeft(h, Load(h, r, s.node))
    [] s.op = "shiftRight" -> shiftRight(h, Load(h, r, s.node))
    [] s.op = "setHeight" -> setHeight(h, Load(h, r, s.node))
    [] s.op = "newAVLNode" ->
         newAVLNode(h, Load(h, r, s.v), Load(h, r, s.l), Load(h, r, s.r)).h
    [] s.op = "putLocal" -> Store(h, r, s.dst, Len(h))

\* The statements of a method body, one after the other.
RECURSIVE Exec(_, _, _)
Exec(h, r, body) ==
  IF body = <<>> THEN h ELSE Exec(Step(h, r, Head(body)), r, Tail(body))

\* btNode.rotateL without the move of the right child's value into node.
rotateLKeepsValue(h, node) ==
  Exec(h, node, << NewAVLNode(<<"value">>, <<"left">>, <<"right", "left">>),
                   Mov(<<"right">>, <<"right", "right">>),
                   PutLocal(<<"left">>) >>)

\* btNode.rotateL.
rotateL(h, node) ==
  Exec(h, node, << NewAVLNode(<<"value">>, <<"left">>, <<"right", "left">>),
                   Mov(<<"value">>, <<"right", "value">>),
                   Mov(<<"right">>, <<"right", "right">>),
                   PutLocal(<<"left">>) >>)

\* btNode.rotateR without node.left = node.left.left: the old left child
\* stays, and its right subtree is under the new right child as well.
rotateRKeepsLeft(h, node) ==
  Exec(h, node, << NewAVLNode(<<"value">>, <<"left", "right">>, <<"right">>),
                   Mov(<<"value">>, <<"left", "value">>),
                   PutLocal(<<"right">>) >>)

\* btNode.rotateR.
rotateR(h, node) ==
  Exec(h, node, << NewAVLNode(<<"value">>, <<"left", "right">>, <<"right">>),
                   Mov(<<"value">>, <<"left", "value">>),
                   Mov(<<"left">>, <<"left", "left">>),
                   PutLocal(<<"right">>) >>)

\* btNode.rotateLR without node.left.setHeight().
rotateLRKeepsLeftHeight(h, node) ==
  Exec(h, node, << NewAVLNode(<<"value">>, <<"left", "right", "right">>, <<"right">>),
                   Mov(<<"value">>, <<"left", "right", "value">>),
                   Mov(<<"left", "right">>, <<"left", "right", "left">>),
                   PutLocal(<<"right">>) >>)

\* btNode.rotateLR.
rotateLR(h, node) ==
  Exec(h, node, << NewAVLNode(<<"value">>, <<"left", "right", "right">>, <<"right">>),
                   Mov(<<"value">>, <<"left", "right", "value">>),
                   Mov(<<"left", "right">>, <<"left", "right", "left">>),
                   SetHeight(<<"left">>),
                   PutLocal(<<"right">>) >>)

\* btNode.rotateRL.
rotateRL(h, node) ==
  Exec(h, node, << NewAVLNode(<<"value">>, <<"left">>, <<"right", "left", "left">>),
                   Mov(<<"value">>, <<"right", "left", "value">>),
                   Mov(<<"right", "left">>, <<"right", "left", "right">>),
                   SetHeight(<<"right">>),
                   PutLocal(<<"left">>) >>)

\* btNode.rebalance without its rotations.
rebalanceHeightOnly(h, node) == setHeight(h, node)

\* btNode.rebalance.
rebalance(h, node) ==
  setHeight(CASE balance(h, node) = 2 ->
                   IF balance(h, h[node].left) = -1
                   THEN rotateLR(h, node) ELSE rotateR(h, node)
              [] balance(h, node) = -2 ->
                   IF balance(h, h[node].right) = 1
                   THEN rotateRL(h, node) ELSE rotateL(h, node)
              [] OTHER -> h,
            node)

\* btNode.add.
RECURSIVE avlAdd(_, _, _)
avlAdd(h, node, v) ==
  IF Equal(v, h[node].value) THEN [h EXCEPT ![node].value = v]
  ELSE IF Less(v, h[node].value)
  THEN IF h[node].left = NIL
       THEN LET a == newAVLNode(h, v, NIL, NIL)
            IN  setHeight([a.h EXCEPT ![node].left = a.p], node)
       ELSE rebalance(avlAdd(h, h[node].left, v), node)
  ELSE IF h[node].right = NIL
       THEN LET a == newAVLNode(h, v, NIL, NIL)
            IN  setHeight([a.h EXCEPT ![node].right = a.p], node)
       ELSE rebalance(avlAdd(h, h[node].right, v), node)

\* btNode.removeSuccessor: the successor's value and the new subtree root.
RECURSIVE removeSuccessor(_, _)
removeSuccessor(h, node) ==
  IF h[node].left = NIL
  THEN [h |-> h, value |-> h[node].value, p |-> h[node].right]
  ELSE LET r == removeSuccessor(h, h[node].left)
       IN  [h |-> rebalance([r.h EXCEPT ![node].left = r.p], node),
            value |-> r.value, p |-> node]

\* btNode.remove: the heap and the new subtree root.
RECURSIVE avlRemove(_, _, _)
avlRemove(h, node, v) ==
  LET rebalanced(hh) == [h |-> rebalance(hh, node), p |-> node] IN
  IF Equal(v, h[node].value)
  THEN IF h[node].left = NIL THEN [h |-> h, p |-> h[node].right]
       ELSE IF h[node].right = NIL THEN [h |-> h, p |-> h[node].left]
       ELSE LET r == removeSuccessor(h, h[node].right)
            IN  rebalanced([r.h EXCEPT ![node].value = r.value, ![node].right = r.p])
  ELSE IF Less(v, h[node].value)
  THEN IF h[node].left = NIL THEN [h |-> h, p |-> node]
       ELSE LET r == avlRemove(h, h[node].left, v)
            IN  rebalanced([r.h EXCEPT ![node].left = r.p])
  ELSE IF h[node].right = NIL THEN [h |-> h, p |-> node]
       ELSE LET r == avlRemove(h, h[node].right, v)
            IN  rebalanced([r.h EXCEPT ![node].right = r.p])

\* AVLTree.Add: the count goes up unless btNode.contains finds v by ==.
AVLAdd(t, v) ==
  IF t.root = NIL
  THEN LET a == newAVLNode(t.h, v, NIL, NIL)
       IN  [h |-> a.h, root |-> a.p, count |-> 1]
  ELSE [h |-> avlAdd(t.h, t.root, v), root |-> t.root,
        count |-> IF ~contains(t.h, t.root, v) THEN t.count + 1 ELSE t.count]

\* AVLTree.Remove without the Contains test.
AVLRemoveUnguarded(t, v) ==
  IF t.root = NIL THEN t
  ELSE LET r == avlRemove(t.h, t.root, v)
       IN  [h |-> r.h, root |-> r.p, count |-> t.count - 1]

\* AVLTree.Remove: Contains is BinarySearchTree.Contains, promoted by embedding.
AVLRemove(t, v) ==
  IF ~BSTContains(t, v) THEN t
  ELSE LET r == avlRemove(t.h, t.root, v)
       IN  [h |-> r.h, root |-> r.p, count |-> t.count - 1]

\* AVLTree.Height.
AVLHeight(h, r) == IF r = NIL THEN 0 ELSE h[r].height

\* ------------------------------------------------------------- TwoThreeTree

\* One assignment through a pointer: node.f = x.
W(h, node, f, x) == [h EXCEPT ![node][f] = x]

\* newTwoThreeNode: a 2-node; value2 and right are Go's zero values.
newTwoThreeNode(h, v, leftChild, midChild) ==
  [h |-> Append(h, [nodeType |-> 2, value1 |-> v, value2 |-> NilValue,
                    left |-> leftChild, mid |-> midChild, right |-> NIL]),
   p |-> Len(h) + 1]

\* twoThreeNode.isLeaf.
isLeaf(h, r) == h[r].left = NIL

\* twoThreeNode.height.
RECURSIVE t23height(_, _)
t23height(h, r) == IF isLeaf(h, r) THEN 0 ELSE 1 + t23height(h, h[r].left)

\* twoThreeNode.get.
RECURSIVE t23get(_, _, _)
t23get(h, r, v) ==
  LET miss == [value |-> NilValue, found |-> FALSE] IN
  IF Less(v, h[r].value1)
  THEN IF isLeaf(h, r) THEN miss ELSE t23get(h, h[r].left, v)
  ELSE IF Equal(v, h[r].value1) THEN [value |-> h[r].value1, found |-> TRUE]
  ELSE IF h[r].nodeType = 2 \/ Less(v, h[r].value2)
  THEN IF isLeaf(h, r) THEN miss ELSE t23get(h, h[r].mid, v)
  ELSE IF Equal(v, h[r].value2) THEN [value |-> h[r].value2, found |-> TRUE]
  ELSE IF isLeaf(h, r) THEN miss ELSE t23get(h, h[r].right, v)

\* The split of add: newTwoThreeNode(v, newTwoThreeNode(lv, ll, lm),
\* newTwoThreeNode(rv, rl, rm)), the children allocated first.
split(h, v, lv, ll, lm, rv, rl, rm) ==
  LET a == newTwoThreeNode(h, lv, ll, lm)
      b == newTwoThreeNode(a.h, rv, rl, rm)
      c == newTwoThreeNode(b.h, v, a.p, b.p)
  IN  [h |-> c.h, p |-> c.p, addition |-> TRUE]

\* twoThreeNode.add: the heap, the (possibly new) subtree root, and whether a
\* value was added.
RECURSIVE t23add(_, _, _)
t23add(h, r, v) ==
  IF Less(v, h[r].value1)
  THEN IF isLeaf(h, r)
       THEN IF h[r].nodeType = 3
            THEN split(h, h[r].value1, v, NIL, NIL, h[r].value2, NIL, NIL)
            ELSE [h |-> [h EXCEPT ![r].nodeType = 3, ![r].value1 = v,
                                  ![r].value2 = h[r].value1],
                  p |-> r, addition |-> TRUE]
       ELSE LET a == t23add(h, h[r].left, v) IN
            IF a.p = a.h[r].left THEN [h |-> a.h, p |-> r, addition |-> a.addition]
            ELSE IF a.h[r].nodeType = 3
            THEN LET b == newTwoThreeNode(a.h, a.h[r].value2, a.h[r].mid, a.h[r].right)
                     c == newTwoThreeNode(b.h, b.h[r].value1, a.p, b.p)
                 IN  [h |-> c.h, p |-> c.p, addition |-> TRUE]
            ELSE [h |-> [a.h EXCEPT ![r].nodeType = 3,
                                    ![r].value1 = a.h[a.p].value1,
                                    ![r].value2 = a.h[r].value1,
                                    ![r].left = a.h[a.p].left,
                                    ![r].mid = a.h[a.p].mid,
                                    ![r].right = a.h[r].mid],
                  p |-> r, addition |-> TRUE]
  ELSE IF Equal(v, h[r].value1)
  THEN [h |-> W(h, r, "value1", v), p |-> r, addition |-> FALSE]
  ELSE IF h[r].nodeType = 2
  THEN IF isLeaf(h, r)
       THEN [h |-> [h EXCEPT ![r].nodeType = 3, ![r].value2 = v],
             p |-> r, addition |-> TRUE]
       ELSE LET a == t23add(h, h[r].mid, v) IN
            IF a.p # a.h[r].mid
            THEN [h |-> [a.h EXCEPT ![r].nodeType = 3,
                                    ![r].value2 = a.h[a.p].value1,
                                    ![r].mid = a.h[a.p].left,
                                    ![r].right = a.h[a.p].mid],
                  p |-> r, addition |-> a.addition]
            ELSE [h |-> a.h, p |-> r, addition |-> a.addition]
  ELSE IF Less(v, h[r].value2)
  THEN IF isLeaf(h, r)
       THEN split(h, v, h[r].value1, NIL, NIL, h[r].value2, NIL, NIL)
       ELSE LET a == t23add(h, h[r].mid, v) IN
            IF a.p # a.h[r].mid
            THEN split(a.h, a.h[a.p].value1,
                       a.h[r].value1, a.h[r].left, a.h[a.p].left,
                       a.h[r].value2, a.h[a.p].mid, a.h[r].right)
            ELSE [h |-> a.h, p |-> r, addition |-> a.addition]
  ELSE IF Equal(v, h[r].value2)
  THEN [h |-> W(h, r, "value2", v), p |-> r, addition |-> FALSE]
  ELSE IF isLeaf(h, r)
       THEN split(h, h[r].value2, h[r].value1, NIL, NIL, v, NIL, NIL)
       ELSE LET a == t23add(h, h[r].right, v) IN
            IF a.p # a.h[r].right
            THEN LET b == newTwoThreeNode(a.h, a.h[r].value1, a.h[r].left, a.h[r].mid)
                     c == newTwoThreeNode(b.h, b.h[r].value2, b.p, a.p)
                 IN  [h |-> c.h, p |-> c.p, addition |-> TRUE]
            ELSE [h |-> a.h, p |-> r, addition |-> a.addition]

\* twoThreeNode.leftBorrowsFromMid.
leftBorrowsFromMid(h, r) ==
  Exec(h, r, << Mov(<<"left", "value1">>, <<"value1">>),
                Mov(<<"value1">>, <<"mid", "value1">>),
                Mov(<<"left", "mid">>, <<"mid", "left">>),
                ShiftLeft(<<"mid">>),
                Put(<<"left", "nodeType">>, 2),
                Dec(<<"mid", "nodeType">>) >>)

\* twoThreeNode.midBorrowsFromLeft without r.value1 = r.left.value2.
midBorrowsFromLeftKeepsValue(h, r) ==
  Exec(h, r, << Mov(<<"mid", "value1">>, <<"value1">>),
                Mov(<<"mid", "mid">>, <<"mid", "left">>),
                Mov(<<"mid", "left">>, <<"left", "right">>),
                Put(<<"mid", "nodeType">>, 2),
                Put(<<"left", "nodeType">>, 2) >>)

\* twoThreeNode.midBorrowsFromLeft.
midBorrowsFromLeft(h, r) ==
  Exec(h, r, << Mov(<<"mid", "value1">>, <<"value1">>),
                Mov(<<"value1">>, <<"left", "value2">>),
                Mov(<<"mid", "mid">>, <<"mid", "left">>),
                Mov(<<"mid", "left">>, <<"left", "right">>),
                Put(<<"mid", "nodeType">>, 2),
                Put(<<"left", "nodeType">>, 2) >>)

\* twoThreeNode.midBorrowsFromRight.
midBorrowsFromRight(h, r) ==
  Exec(h, r, << Mov(<<"mid", "value1">>, <<"value2">>),
                Mov(<<"value2">>, <<"right", "value1">>),
                Mov(<<"mid", "mid">>, <<"right", "left">>),
                ShiftLeft(<<"right">>),
                Put(<<"mid", "nodeType">>, 2),
                Put(<<"right", "nodeType">>, 2) >>)

\* twoThreeNode.rightBorrowsFromMid.  The switch has no case for a mid child
\* that is neither a 2-node nor a 3-node: the code panics there, and so the
\* CASE has no OTHER arm.
rightBorrowsFromMid(h, r) ==
  Exec(h, r, << Mov(<<"right", "value1">>, <<"value2">>),
                Mov(<<"right", "mid">>, <<"right", "left">>) >>
             \o (CASE h[h[r].mid].nodeType = 2 ->
                        << Mov(<<"value2">>, <<"mid", "value1">>),
                           Mov(<<"right", "left">>, <<"mid", "mid">>) >>
                   [] h[h[r].mid].nodeType = 3 ->
                        << Mov(<<"value2">>, <<"mid", "value2">>),
                           Mov(<<"right", "left">>, <<"mid", "right">>) >>)
             \o << Put(<<"right", "nodeType">>, 2),
                   Dec(<<"mid", "nodeType">>) >>)

\* twoThreeNode.foldLeftIntoMid.
foldLeftIntoMid(h, r) ==
  Exec(h, r, << ShiftRight(<<"mid">>),
                Mov(<<"mid", "value1">>, <<"value1">>),
                Mov(<<"mid", "left">>, <<"left", "left">>),
                Put(<<"mid", "nodeType">>, 3),
                ShiftLeft(<<>>),
                Put(<<"nodeType">>, 2) >>)

\* twoThreeNode.foldMidIntoRight.
foldMidIntoRight(h, r) ==
  Exec(h, r, << ShiftRight(<<"right">>),
                Mov(<<"right", "value1">>, <<"value2">>),
                Mov(<<"right", "left">>, <<"mid", "left">>),
                Mov(<<"mid">>, <<"right">>),
                Put(<<"right", "nodeType">>, 3),
                Put(<<"nodeType">>, 2) >>)

\* twoThreeNode.foldRightIntoMid.
foldRightIntoMid(h, r) ==
  Exec(h, r, << Mov(<<"mid", "value2">>, <<"value2">>),
                Mov(<<"mid", "right">>, <<"right", "left">>),
                Put(<<"mid", "nodeType">>, 3),
                Put(<<"nodeType">>, 2) >>)

\* twoThreeNode.pushLeftIntoMid with r.mid.left = r.left for
\* r.mid.left = r.left.left.
pushLeftIntoMidKeepsLeft(h, r) ==
  Exec(h, r, << ShiftRight(<<"mid">>),
                Mov(<<"mid", "value1">>, <<"value1">>),
                Mov(<<"mid", "left">>, <<"left">>),
                Put(<<"mid", "nodeType">>, 3),
                Mov(<<"left">>, <<"mid">>),
                Put(<<"nodeType">>, 1) >>)

\* twoThreeNode.pushLeftIntoMid.
pushLeftIntoMid(h, r) ==
  Exec(h, r, << ShiftRight(<<"mid">>),
                Mov(<<"mid", "value1">>, <<"value1">>),
                Mov(<<"mid", "left">>, <<"left", "left">>),
                Put(<<"mid", "nodeType">>, 3),
                Mov(<<"left">>, <<"mid">>),
                Put(<<"nodeType">>, 1) >>)

\* twoThreeNode.pushMidIntoLeft.
pushMidIntoLeft(h, r) ==
  Exec(h, r, << Mov(<<"left", "value2">>, <<"value1">>),
                Mov(<<"left", "right">>, <<"mid", "left">>),
                Put(<<"left", "nodeType">>, 3),
                Put(<<"nodeType">>, 1) >>)

\* remove, first repair block: the left child is a 1-node.
fixLeft(h, r) ==
  IF h[h[r].left].nodeType = 1
  THEN IF h[h[r].mid].nodeType = 3
          \/ (h[r].nodeType = 3 /\ h[h[r].right].nodeType = 3)
       THEN LET h1 == leftBorrowsFromMid(h, r)
            IN  IF h1[h1[r].mid].nodeType = 1 THEN midBorrowsFromRight(h1, r) ELSE h1
       ELSE IF h[r].nodeType = 3 THEN foldLeftIntoMid(h, r)
       ELSE pushLeftIntoMid(h, r)
  ELSE h

\* The second repair block folding the mid child into the right one without
\* asking whether the right one can lend.
fixMidFoldsFirst(h, r) ==
  IF h[h[r].mid].nodeType = 1
  THEN IF h[h[r].left].nodeType = 3 THEN midBorrowsFromLeft(h, r)
       ELSE IF h[r].nodeType = 3 THEN foldMidIntoRight(h, r)
            ELSE pushMidIntoLeft(h, r)
  ELSE h

\* remove, second repair block: the mid child is a 1-node.
fixMid(h, r) ==
  IF h[h[r].mid].nodeType = 1
  THEN IF h[h[r].left].nodeType = 3 THEN midBorrowsFromLeft(h, r)
       ELSE IF h[r].nodeType = 3
            THEN IF h[h[r].right].nodeType = 3
                 THEN midBorrowsFromRight(h, r) ELSE foldMidIntoRight(h, r)
            ELSE pushMidIntoLeft(h, r)
  ELSE h

\* remove, third repair block: the right child of a 3-node is a 1-node.
fixRight(h, r) ==
  IF h[r].nodeType = 3 /\ h[h[r].right].nodeType = 1
  THEN IF h[h[r].left].nodeType = 3 \/ h[h[r].mid].nodeType = 3
       THEN LET h1 == rightBorrowsFromMid(h, r)
            IN  IF h1[h1[r].mid].nodeType = 1 THEN midBorrowsFromLeft(h1, r) ELSE h1
       ELSE foldRightIntoMid(h, r)
  ELSE h

\* remove at a leaf without r.value1 = r.value2 where v equals value1.
removeAtLeafKeepsValue(h, r, v, target, which) ==
  LET done(hh) == [h |-> W(hh, r, "nodeType", hh[r].nodeType - 1), deletion |-> TRUE]
      no       == [h |-> h, deletion |-> FALSE]
  IN  IF target # NIL
      THEN LET h1 == CASE which = 1 -> W(h, target, "value1", h[r].value1)
                       [] which = 2 -> W(h, target, "value2", h[r].value1)
                       [] OTHER -> h
           IN  done(W(h1, r, "value1", h1[r].value2))
      ELSE IF Less(v, h[r].value1) THEN no
      ELSE IF Equal(v, h[r].value1) THEN done(h)
      ELSE IF h[r].nodeType = 2 \/ Less(v, h[r].value2) THEN no
      ELSE IF ~Equal(v, h[r].value2) THEN no
      ELSE done(h)

\* twoThreeNode.remove at a leaf.
removeAtLeaf(h, r, v, target, which) ==
  LET done(hh) == [h |-> W(hh, r, "nodeType", hh[r].nodeType - 1), deletion |-> TRUE]
      no       == [h |-> h, deletion |-> FALSE]
  IN  IF target # NIL
      THEN LET h1 == CASE which = 1 -> W(h, target, "value1", h[r].value1)
                       [] which = 2 -> W(h, target, "value2", h[r].value1)
                       [] OTHER -> h
           IN  done(W(h1, r, "value1", h1[r].value2))
      ELSE IF Less(v, h[r].value1) THEN no
      ELSE IF Equal(v, h[r].value1) THEN done(W(h, r, "value1", h[r].value2))
      ELSE IF h[r].nodeType = 2 \/ Less(v, h[r].value2) THEN no
      ELSE IF ~Equal(v, h[r].value2) THEN no
      ELSE done(h)

\* twoThreeNode.remove: the heap and whether a value was deleted.
RECURSIVE t23remove(_, _, _, _, _)
t23remove(h, r, v, target, which) ==
  IF isLeaf(h, r) THEN removeAtLeaf(h, r, v, target, which)
  ELSE LET d == IF target # NIL
                THEN [h |-> t23remove(h, h[r].left, v, target, which).h,
                      deletion |-> TRUE]
                ELSE IF Less(v, h[r].value1) THEN t23remove(h, h[r].left, v, NIL, 0)
                ELSE IF Equal(v, h[r].value1) THEN t23remove(h, h[r].mid, v, r, 1)
                ELSE IF h[r].nodeType = 2 \/ Less(v, h[r].value2)
                     THEN t23remove(h, h[r].mid, v, NIL, 0)
                ELSE IF Equal(v, h[r].value2) THEN t23remove(h, h[r].right, v, r, 2)
                ELSE t23remove(h, h[r].right, v, NIL, 0)
       IN  [h |-> fixRight(fixMid(fixLeft(d.h, r), r), r), deletion |-> d.deletion]

\* twoThreeNode.visitInorder taking a node for a 3-node when its value2 is
\* set, not when its nodeType is 3.
RECURSIVE t23visitInorderByValue2(_, _)
t23visitInorderByValue2(h, r) ==
  IF isLeaf(h, r)
  THEN <<h[r].value1>> \o (IF h[r].value2 # NilValue THEN <<h[r].value2>> ELSE <<>>)
  ELSE t23visitInorderByValue2(h, h[r].left) \o <<h[r].value1>>
       \o t23visitInorderByValue2(h, h[r].mid)
       \o (IF h[r].value2 # NilValue
           THEN <<h[r].value2>> \o t23visitInorderByValue2(h, h[r].right) ELSE <<>>)

\* twoThreeNode.visitInorder, collecting the visited values.
RECURSIVE t23visitInorder(_, _)
t23visitInorder(h, r) ==
  IF isLeaf(h, r)
  THEN <<h[r].value1>> \o (IF h[r].nodeType = 3 THEN <<h[r].value2>> ELSE <<>>)
  ELSE t23visitInorder(h, h[r].left) \o <<h[r].value1>>
       \o t23visitInorder(h, h[r].mid)
       \o (IF h[r].nodeType = 3
           THEN <<h[r].value2>> \o t23visitInorder(h, h[r].right) ELSE <<>>)

\* TwoThreeTree.Visit.
T23Visit(h, r) == IF r = NIL THEN <<>> ELSE t23visitInorder(h, r)

\* TwoThreeTree.Get.
T23Get(t, v) ==
  IF t.root = NIL THEN [value |-> NilValue, found |-> FALSE]
  ELSE t23get(t.h, t.root, v)

\* TwoThreeTree.Contains.
T23Contains(t, v) == IF t.root = NIL THEN FALSE ELSE t23get(t.h, t.root, v).found

\* A TwoThreeTree.Add that counts every call, also one that stores no new
\* key.
T23AddCountsAlways(t, v) ==
  IF t.root = NIL
  THEN [h |-> newTwoThreeNode(t.h, v, NIL, NIL).h, root |-> Len(t.h) + 1, count |-> 1]
  ELSE [h |-> t23add(t.h, t.root, v).h, root |-> t23add(t.h, t.root, v).p,
        count |-> t.count + 1]

\* TwoThreeTree.Add.
T23Add(t, v) ==
  IF t.root = NIL
  THEN LET a == newTwoThreeNode(t.h, v, NIL, NIL)
       IN  [h |-> a.h, root |-> a.p, count |-> 1]
  ELSE LET a == t23add(t.h, t.root, v)
       IN  [h |-> a.h, root |-> a.p,
            count |-> IF a.addition THEN t.count + 1 ELSE t.count]

\* TwoThreeTree.Remove without the replacement of a root left as a 1-node.
T23RemovedKeepsRoot(t, d) ==
  [h |-> d.h, root |-> t.root,
   count |-> IF d.deletion THEN t.count - 1 ELSE t.count]

\* TwoThreeTree.Remove after the call of root.remove, which left d.
T23Removed(t, d) ==
  [h |-> d.h,
   root |-> IF d.h[t.root].nodeType = 1 THEN d.h[t.root].left ELSE t.root,
   count |-> IF d.deletion THEN t.count - 1 ELSE t.count]

\* TwoThreeTree.Remove.
T23Remove(t, v) ==
  IF t.root = NIL THEN t
  ELSE T23Removed(t, t23remove(t.h, t.root, v, NIL, 0))

\* TwoThreeTree.Height.
T23Height(h, r) == IF r = NIL THEN 0 ELSE t23height(h, r)

\* ----------------------------------------------------------- BinaryTree

\* The end of btNode.clone: the copy allocated once both subtrees are copied.
cloned(h, node, l, r) == newBTNode(r.h, h[node].value, l.p, r.p)

\* A clone that copies nothing: the node itself.
cloneShallow(h, node) == [h |-> h, p |-> node]

\* btNode.clone continued: the left subtree is copied (l), now the right one.
RECURSIVE clone(_, _)
cloneRight(h, node, l) == cloned(h, node, l, clone(l.h, h[node].right))

\* btNode.clone: a copy of the graph at node; nil for nil.  The height field
\* is not copied.
clone(h, node) ==
  IF node = NIL THEN [h |-> h, p |-> NIL]
  ELSE cloneRight(h, node, clone(h, h[node].left))

\* btNode.getHeight.
RECURSIVE getHeight(_, _)
getHeight(h, node) ==
  IF node = NIL THEN 0
  ELSE IF h[node].left = NIL /\ h[node].right = NIL THEN 0
  ELSE 1 + Max(getHeight(h, h[node].left), getHeight(h, h[node].right))

\* BinaryTree.Height.
BinaryTreeHeight(h, r) == getHeight(h, r)

\* A BinaryTree value and the error returned with it.
Result(h, r, n, err) == [h |-> h, root |-> r, count |-> n, err |-> err]

\* The end of buildBinaryTree: the new root over the copies l and r.
built(v, n, l, r) == Result(newBTNode(r.h, v, l.p, r.p).h, Len(r.h) + 1, n, FALSE)

\* buildBinaryTree continued: the left tree is copied (l), now the right one.
buildRight(v, n, rightRoot, l) == built(v, n, l, clone(l.h, rightRoot))

\* buildBinaryTree(v, leftTree, rightTree); the trees are (root, count)
\* pairs over the heap h.
buildBinaryTree(h, v, leftTree, rightTree) ==
  buildRight(v, 1 + rightTree.count + leftTree.count, rightTree.root,
             clone(h, leftTree.root))

\* A RootValue that returns nil without an error for the empty tree.
RootValueSilent(t) ==
  [value |-> IF t.root = NIL THEN NilValue ELSE t.h[t.root].value, err |-> FALSE]

\* BinaryTree.RootValue.
RootValue(t) ==
  IF t.root = NIL THEN [value |-> NilValue, err |-> TRUE]
  ELSE [value |-> t.h[t.root].value, err |-> FALSE]

\* The subtree copied by LeftSubtree and RightSubtree.
subtree(h, child, c) == Result(c.h, c.p, size(h, child), FALSE)

\* BinaryTree.LeftSubtree.
LeftSubtree(t) ==
  IF t.root = NIL THEN Result(t.h, NIL, 0, TRUE)
  ELSE subtree(t.h, t.h[t.root].left, clone(t.h, t.h[t.root].left))

\* BinaryTree.RightSubtree.
RightSubtree(t) ==
  IF t.root = NIL THEN Result(t.h, NIL, 0, TRUE)
  ELSE subtree(t.h, t.h[t.root].right, clone(t.h, t.h[t.root].right))

\* ------------------------------------------------- visits and iterators

\* btNode.visitPreorder, collecting the visited values.
RECURSIVE visitPreorder(_, _)
visitPreorder(h, node) ==
  <<h[node].value>>
  \o (IF h[node].left # NIL THEN visitPreorder(h, h[node].left) ELSE <<>>)
  \o (IF h[node].right # NIL THEN visitPreorder(h, h[node].right) ELSE <<>>)

\* btNode.visitPostorder, collecting the visited values.
RECURSIVE visitPostorder(_, _)
visitPostorder(h, node) ==
  (IF h[node].left # NIL THEN visitPostorder(h, h[node].left) ELSE <<>>)
  \o (IF h[node].right # NIL THEN visitPostorder(h, h[node].right) ELSE <<>>)
  \o <<h[node].value>>

\* BinaryTree.VisitPreorder.
VisitPreorder(h, r) == IF r = NIL THEN <<>> ELSE visitPreorder(h, r)

\* BinaryTree.VisitPostorder.
VisitPostorder(h, r) == IF r = NIL THEN <<>> ELSE visitPostorder(h, r)

\* The values of a 2-3 node: value1, and value2 in a 3-node.
nodeValues(h, r) ==
  <<h[r].value1>> \o (IF h[r].nodeType = 3 THEN <<h[r].value2>> ELSE <<>>)

\* twoThreeNode.visitPreorder, collecting the visited values.
RECURSIVE t23visitPreorder(_, _)
t23visitPreorder(h, r) ==
  IF isLeaf(h, r) THEN nodeValues(h, r)
  ELSE nodeValues(h, r)
       \o t23visitPreorder(h, h[r].left) \o t23visitPreorder(h, h[r].mid)
       \o (IF h[r].nodeType = 3 THEN t23visitPreorder(h, h[r].right) ELSE <<>>)

\* twoThreeNode.visitPostorder, collecting the visited values.
RECURSIVE t23visitPostorder(_, _)
t23visitPostorder(h, r) ==
  IF isLeaf(h, r) THEN nodeValues(h, r)
  ELSE t23visitPostorder(h, h[r].left) \o t23visitPostorder(h, h[r].mid)
       \o (IF h[r].nodeType = 3 THEN t23visitPostorder(h, h[r].right) ELSE <<>>)
       \o nodeValues(h, r)

\* TwoThreeTree.VisitPreorder.
T23VisitPreorder(h, r) == IF r = NIL THEN <<>> ELSE t23visitPreorder(h, r)

\* TwoThreeTree.VisitPostorder.
T23VisitPostorder(h, r) == IF r = NIL THEN <<>> ELSE t23visitPostorder(h, r)

\* LinkedStack: a sequence, the top first.  Push.
Push(s, e) == <<e>> \o s

\* LinkedStack.Empty.
Empty(s) == Len(s) = 0

\* An external iterator: its order ("pre", "in", "post" of a binary tree,
\* "t23"), the nodes it reads (h; the 2-3 iterator allocates nodes of its
\* own), the root it resets to, its stack, and the postorder iterator's
\* nextNode.
Iterator(order, h, r, s, n) ==
  [order |-> order, h |-> h, root |-> r, stack |-> s, nextNode |-> n]

\* The loop "for node != nil { stack.Push(node); node = node.left }".
RECURSIVE pushLeftmost(_, _, _)
pushLeftmost(h, s, node) ==
  IF node = NIL THEN s ELSE pushLeftmost(h, Push(s, node), h[node].left)

\* The loop of the postorder iterator: push node, go left if there is a left
\* child and right otherwise.
RECURSIVE pushDeepest(_, _, _)
pushDeepest(h, s, node) ==
  IF node = NIL THEN s
  ELSE pushDeepest(h, Push(s, node),
                   IF h[node].left # NIL THEN h[node].left ELSE h[node].right)

\* preorderIterator.Reset.
preorderReset(it) ==
  [it EXCEPT !.stack = IF it.root # NIL THEN Push(<<>>, it.root) ELSE <<>>]

\* inorderIterator.Reset without stack.Clear().
inorderResetKeepsStack(it) == [it EXCEPT !.stack = pushLeftmost(it.h, it.stack, it.root)]

\* inorderIterator.Reset; twoThreeTreeIterator.Reset is the same loop.
inorderReset(it) == [it EXCEPT !.stack = pushLeftmost(it.h, <<>>, it.root)]

\* The end of postorderIterator.Reset and Next: nextNode is popped from s,
\* or nil where s is empty.
popNextNode(it, s) ==
  IF Empty(s) THEN [it EXCEPT !.stack = s, !.nextNode = NIL]
  ELSE [it EXCEPT !.stack = Tail(s), !.nextNode = Head(s)]

\* postorderIterator.Reset.
postorderReset(it) == popNextNode(it, pushDeepest(it.h, <<>>, it.root))

\* Reset of the iterator's type.
Reset(it) ==
  CASE it.order = "pre" -> preorderReset(it)
    [] it.order = "in" -> inorderReset(it)
    [] it.order = "post" -> postorderReset(it)
    [] it.order = "t23" -> inorderReset(it)

\* NewPreorderIterator / NewInorderIterator / NewPostorderIterator /
\* NewIterator: a new stack, the tree's root, Reset.
NewIterator(order, h, r) == Reset(Iterator(order, h, r, <<>>, NIL))

\* "if node != nil { stack.Push(node) }".
pushIf(node, s) == IF node # NIL THEN Push(s, node) ELSE s

\* The end of twoThreeTreeIterator.Next: unless node is a leaf, node.mid and
\* the nodes to its left are pushed.
t23PushedMid(it, node, s) ==
  [it EXCEPT !.stack = IF isLeaf(it.h, node) THEN s
                       ELSE pushLeftmost(it.h, s, it.h[node].mid)]

\* A preorder iterator that pushes the left child before the right one.
preorderPushedLeftFirst(h, s, node) ==
  pushIf(h[node].right, pushIf(h[node].left, s))

\* The pushes of preorderIterator.Next after node was popped: its right
\* child, then its left child.
preorderPushed(h, s, node) ==
  pushIf(h[node].left, pushIf(h[node].right, s))

\* A 2-3 iterator that pushes nothing for value2 of a 3-node.
t23PushedSkipsValue2(it, node, s) == t23PushedMid(it, node, s)

\* A 2-3 iterator that turns the popped 3-node itself into the 2-node of
\* value2, mid and right and pushes it back.
t23PushedInPlace(it, node, s) ==
  IF it.h[node].nodeType = 3
  THEN [it EXCEPT !.h = [it.h EXCEPT ![node].value1 = it.h[node].value2,
                                     ![node].left = it.h[node].mid,
                                     ![node].mid = it.h[node].right,
                                     ![node].nodeType = 2],
                  !.stack = IF isLeaf(it.h, node) THEN Push(s, node)
                            ELSE pushLeftmost(it.h, Push(s, node), it.h[node].mid)]
  ELSE t23PushedMid(it, node, s)

\* The pushes of twoThreeTreeIterator.Next after node was popped from s: for
\* a 3-node a new 2-node of value2, mid and right; then, unless node is a
\* leaf, node.mid and the nodes to its left.
t23Pushed(it, node, s) ==
  IF it.h[node].nodeType = 3
  THEN t23PushedMid(
         [it EXCEPT !.h = newTwoThreeNode(it.h, it.h[node].value2,
                                          it.h[node].mid, it.h[node].right).h],
         node, Push(s, Len(it.h) + 1))
  ELSE t23PushedMid(it, node, s)

\* What Next returns: the iterator after the call and the pair (value, ok).
Returned(it, v, ok) == [it |-> it, value |-> v, found |-> ok]

\* preorderIterator.Next.
preorderNext(it) ==
  IF Empty(it.stack) THEN Returned(it, NilValue, FALSE)
  ELSE Returned([it EXCEPT !.stack = preorderPushed(it.h, Tail(it.stack), Head(it.stack))],
                it.h[Head(it.stack)].value, TRUE)

\* inorderIterator.Next.
inorderNext(it) ==
  IF Empty(it.stack) THEN Returned(it, NilValue, FALSE)
  ELSE Returned([it EXCEPT !.stack = pushLeftmost(it.h, Tail(it.stack),
                                                  it.h[Head(it.stack)].right)],
                it.h[Head(it.stack)].value, TRUE)

\* postorderIterator.Next.
postorderNext(it) ==
  IF it.nextNode = NIL THEN Returned(it, NilValue, FALSE)
  ELSE IF Empty(it.stack)
  THEN Returned([it EXCEPT !.nextNode = NIL], it.h[it.nextNode].value, TRUE)
  ELSE Returned(popNextNode(it, IF it.nextNode # it.h[Head(it.stack)].right
                                THEN pushDeepest(it.h, it.stack, it.h[Head(it.stack)].right)
                                ELSE it.stack),
                it.h[it.nextNode].value, TRUE)

\* twoThreeTreeIterator.Next.
t23Next(it) ==
  IF Empty(it.stack) THEN Returned(it, NilValue, FALSE)
  ELSE Returned(t23Pushed(it, Head(it.stack), Tail(it.stack)),
                it.h[Head(it.stack)].value1, TRUE)

\* Next of the iterator's type.
IterNext(it) ==
  CASE it.order = "pre" -> preorderNext(it)
    [] it.order = "in" -> inorderNext(it)
    [] it.order = "post" -> postorderNext(it)
    [] it.order = "t23" -> t23Next(it)

\* A Done that looks at the stack only, for the postorder iterator as well.
IterDoneStackOnly(it) == Empty(it.stack)

\* Done of the iterator's type.
IterDone(it) == IF it.order = "post" THEN it.nextNode = NIL ELSE Empty(it.stack)

\* The values that repeated calls of Next return until one returns false,
\* at most fuel of them.
RECURSIVE Drain(_, _)
Drain(it, fuel) ==
  IF fuel = 0 \/ ~IterNext(it).found THEN <<>>
  ELSE <<IterNext(it).value>> \o Drain(IterNext(it).it, fuel - 1)

\* -------------------------------------------------------------- HashTable
\* A table is an array of chains; a chain is the sequence of its tableNodes
\* [key, value] from the list head on.

DefaultTableSize == 991

\* isPrime: odd trial divisors from 3 up to the integer square root.
isPrime(n) ==
  IF n < 2 THEN FALSE
  ELSE IF n = 2 THEN TRUE
  ELSE IF n % 2 = 0 THEN FALSE
  ELSE \A k \in 3..n : (k % 2 = 1 /\ k * k <= n) => n % k # 0

\* The loop of nextPrime: result += 2 until result is prime.
RECURSIVE firstPrime(_)
firstPrime(n) == IF isPrime(n) THEN n ELSE firstPrime(n + 2)

\* nextPrime.
nextPrime(n) ==
  IF n <= 2 THEN 2 ELSE firstPrime(IF n % 2 = 0 THEN n + 1 ELSE n)

\* make([]*tableNode, n): n nil list heads.
makeTable(n) == [i \in 0..(n - 1) |-> <<>>]

\* new(HashTable): the zero value, as HashMap embeds it.
ZeroHashTable == [tableSize |-> 0, count |-> 0, table |-> makeTable(0)]

\* NewHashTable(tableSize...): sizes is the list of optional arguments.
NewHashTable(sizes) ==
  LET n == IF 0 < Len(sizes) /\ 2 < sizes[1] THEN nextPrime(sizes[1])
           ELSE DefaultTableSize
  IN  [tableSize |-> n, count |-> 0, table |-> makeTable(n)]

\* newTableNode (the link is the node's place in the chain).
newTableNode(key, value) == [key |-> key, value |-> value]

\* HashTable.Size.
HashTableSize(t) == t.count

\* HashTable.Clear.
HashTableClear(t) ==
  LET n == IF t.tableSize < 3 THEN DefaultTableSize ELSE t.tableSize
  IN  [tableSize |-> n, count |-> 0, table |-> makeTable(n)]

\* The first statement of Get, Insert and Delete: a table that was never
\* sized is cleared.
sized(t) == IF t.tableSize < 3 THEN HashTableClear(t) ELSE t

\* A search that looks at the head of the chain only.
chainFindHead(chain, key) == IF chain # <<>> /\ chain[1].key = key THEN 1 ELSE 0

\* The place in the chain of the first node whose key equals key, 0 if none
\* (the loops over node.next).
chainFind(chain, key) ==
  IF \E i \in 1..Len(chain) : chain[i].key = key
  THEN CHOOSE i \in 1..Len(chain) :
         chain[i].key = key /\ \A j \in 1..(i - 1) : chain[j].key # key
  ELSE 0

\* The chain without its node at place i (lastNode.next = node.next).
unlink(chain, i) == SubSeq(chain, 1, i - 1) \o SubSeq(chain, i + 1, Len(chain))

\* Integer.Hash of the map tests: the key itself.
HashInteger(key, tableSize) == key

\* Integer.Hash of the hash table tests.
HashModulo(key, tableSize) == key % tableSize

\* key.Hash(tableSize): the method of the key type of the test in play.
Hash(key, tableSize) ==
  IF kind = "Map" THEN HashInteger(key, tableSize) ELSE HashModulo(key, tableSize)

\* HashTable.Get: the table it leaves, the value and the ok flag.
HashTableGet(t0, key) ==
  LET t == sized(t0)
      chain == t.table[Hash(key, t.tableSize)]
      i == chainFind(chain, key)
  IN  IF i # 0 THEN [t |-> t, value |-> chain[i].value, found |-> TRUE]
      ELSE [t |-> t, value |-> NilValue, found |-> FALSE]

\* HashTable.Insert.
HashTableInsert(t0, key, value) ==
  LET t == sized(t0)
      index == Hash(key, t.tableSize)
      i == chainFind(t.table[index], key)
  IN  IF i # 0 THEN [t EXCEPT !.table[index][i].value = value]
      ELSE [t EXCEPT !.table[index] = <<newTableNode(key, value)>> \o t.table[index],
                     !.count = t.count + 1]

\* HashTable.Delete: the head of the chain, then the nodes behind it.
HashTableDelete(t0, key) ==
  LET t == sized(t0)
      index == Hash(key, t.tableSize)
      chain == t.table[index]
      i == chainFind(chain, key)
  IN  IF chain = <<>> THEN t
      ELSE IF key = chain[1].key
      THEN [t EXCEPT !.table[index] = Tail(chain), !.count = t.count - 1]
      ELSE IF i # 0
      THEN [t EXCEPT !.table[index] = unlink(chain, i), !.count = t.count - 1]
      ELSE t

\* ------------------------------------------------------ TreeMap and HashMap

\* &cKeyValue{key, value}: ref is the identity of the new object.  == on the
\* interface values in the tree compares these pointers.
cKeyValue(key, value, ref) == [key |-> key, value |-> value, ref |-> ref]

\* The identity of a newly allocated pair: one that no pair in the tree has.
newRef(t) ==
  CHOOSE n \in 1..(Len(t.h) + 1) : \A i \in 1..Len(t.h) : t.h[i].value.ref # n

\* new(TreeMap): an AVLTree with no nodes.
ZeroTreeMap == [h |-> <<>>, root |-> NIL, count |-> 0]

\* TreeMap.Size.
TreeMapSize(m) == m.count

\* TreeMap.Insert.
TreeMapInsert(m, k, v) == AVLAdd(m, cKeyValue(k, v, newRef(m)))

\* TreeMap.Delete.
TreeMapDelete(m, k) == AVLRemove(m, cKeyValue(k, NilValue, newRef(m)))

\* TreeMap.Get.
TreeMapGet(m, k) ==
  LET r == BSTGet(m, cKeyValue(k, NilValue, newRef(m)))
  IN  IF r.found THEN [value |-> r.value.value, found |-> TRUE]
      ELSE [value |-> NilValue, found |-> FALSE]

\* TreeMap.HasKey.
TreeMapHasKey(m, k) == BSTGet(m, cKeyValue(k, NilValue, newRef(m))).found

\* TreeMap.Clear.
TreeMapClear(m) == [h |-> m.h, root |-> NIL, count |-> 0]

\* HashMap.Size.
HashMapSize(m) == HashTableSize(m)

\* HashMap.Insert.
HashMapInsert(m, k, v) == HashTableInsert(m, k, v)

\* HashMap.Delete.
HashMapDelete(m, k) == HashTableDelete(m, k)

\* HashMap.Get.
HashMapGet(m, k) ==
  LET r == HashTableGet(m, k)
  IN  IF r.found THEN [value |-> r.value, found |-> TRUE]
      ELSE [value |-> NilValue, found |-> FALSE]

\* HashMap.HasKey.
HashMapHasKey(m, k) == HashTableGet(m, k).found

\* HashMap.Clear.
HashMapClear(m) == HashTableClear(m)

\* ------------------------------------------------------------------ queues
\* A slice is a sequence: store[i] of the code is store[i + 1] here.  A
\* linked list is the sequence of the items of its nodes from the head on.

\* An int held in an interface{} value, as the tests enter them.
Integer(n) == [int |-> n]

\* What a call returns: the value, whether err is non-nil, and whether the
\* call panicked instead of returning (an index out of range).
Returns(v, err) == [value |-> v, err |-> err, panic |-> FALSE]

Panics == [value |-> NilValue, err |-> FALSE, panic |-> TRUE]

\* s[i] of Go on a slice s: a panic unless 0 <= i < len(s).
At(s, i) == IF 0 <= i /\ i < Len(s) THEN Returns(s[i + 1], FALSE) ELSE Panics

\* new(ArrayQueue).
ZeroArrayQueue == [count |-> 0, frontIndex |-> 0, store |-> <<>>]

\* ArrayQueue.Front.
ArrayQueueFront(q) ==
  IF q.count = 0 THEN [q |-> q, r |-> Returns(NilValue, TRUE)]
  ELSE [q |-> q, r |-> At(q.store, q.frontIndex)]

\* ArrayQueue.Leave: after the read of store[frontIndex] (which may panic)
\* frontIndex moves on by one.
ArrayQueueLeave(q) ==
  IF q.count = 0 THEN [q |-> q, r |-> Returns(NilValue, TRUE)]
  ELSE IF At(q.store, q.frontIndex).panic THEN [q |-> q, r |-> Panics]
  ELSE [q |-> [q EXCEPT !.frontIndex = q.frontIndex + 1, !.count = q.count - 1],
        r |-> At(q.store, q.frontIndex)]

\* ArrayQueue.Enter: a store of four, doubled by append(store, store...) when
\* full; e goes to store[(frontIndex+count) % len(store)].
ArrayQueueEnter(q, e) ==
  LET made == IF Len(q.store) = 0 THEN [i \in 1..4 |-> NilValue] ELSE q.store
      store == IF q.count = Len(made) THEN made \o made ELSE made
  IN  [q EXCEPT !.store = [store EXCEPT ![((q.frontIndex + q.count) % Len(store)) + 1] = e],
                !.count = q.count + 1]

\* ArrayQueue.Clear.
ArrayQueueClear(q) == [q EXCEPT !.count = 0]

\* new(LinkedQueue): list holds the items from frontPtr on, rear is the place
\* in it of the node rearPtr points to (0: nil).
ZeroLinkedQueue == [count |-> 0, list |-> <<>>, rear |-> 0]

\* LinkedQueue.Front.
LinkedQueueFront(q) ==
  IF q.count = 0 THEN [q |-> q, r |-> Returns(NilValue, TRUE)]
  ELSE [q |-> q, r |-> Returns(q.list[1], FALSE)]

\* LinkedQueue.Leave.
LinkedQueueLeave(q) ==
  IF q.count = 0 THEN [q |-> q, r |-> Returns(NilValue, TRUE)]
  ELSE [q |-> [count |-> q.count - 1, list |-> Tail(q.list),
               rear |-> IF Tail(q.list) = <<>> THEN 0 ELSE q.rear - 1],
        r |-> Returns(q.list[1], FALSE)]

\* LinkedQueue.Enter: rearPtr.next = &node{e, nil}; rearPtr = rearPtr.next.
LinkedQueueEnter(q, e) ==
  IF q.count = 0 THEN [count |-> 1, list |-> <<e>>, rear |-> 1]
  ELSE [count |-> q.count + 1, list |-> SubSeq(q.list, 1, q.rear) \o <<e>>,
        rear |-> q.rear + 1]

\* LinkedQueue.Clear.
LinkedQueueClear(q) == [count |-> 0, list |-> <<>>, rear |-> 0]

\* ------------------------------------------------------------- randomizers

\* new(ArrayRandomizer).
ZeroArrayRandomizer == [count |-> 0, store |-> <<>>]

\* A Leave that does not move the last element into the slot left.
ArrayRandomizerLeaveNoMove(r, index) ==
  IF r.count = 0 THEN [q |-> r, r |-> Returns(NilValue, TRUE)]
  ELSE [q |-> [r EXCEPT !.count = r.count - 1], r |-> Returns(r.store[index + 1], FALSE)]

\* ArrayRandomizer.Leave, index being what rand.Intn(r.count) returned.
ArrayRandomizerLeave(r, index) ==
  IF r.count = 0 THEN [q |-> r, r |-> Returns(NilValue, TRUE)]
  ELSE [q |-> [count |-> r.count - 1,
               store |-> [r.store EXCEPT ![index + 1] = r.store[r.count]]],
        r |-> Returns(r.store[index + 1], FALSE)]

\* ArrayRandomizer.Enter.
ArrayRandomizerEnter(r, e) ==
  [count |-> r.count + 1,
   store |-> IF r.count = Len(r.store) THEN Append(r.store, e)
             ELSE [r.store EXCEPT ![r.count + 1] = e]]

\* ArrayRandomizer.Clear.
ArrayRandomizerClear(r) == [r EXCEPT !.count = 0]

\* new(LinkedRandomizer): list holds the items from headPtr on.
ZeroLinkedRandomizer == [count |-> 0, list |-> <<>>]

\* LinkedRandomizer.Leave, index being what rand.Intn(r.count) returned: the
\* head, or the node index steps behind it.
LinkedRandomizerLeave(r, index) ==
  IF r.count = 0 THEN [q |-> r, r |-> Returns(NilValue, TRUE)]
  ELSE IF index = 0
  THEN [q |-> [count |-> r.count - 1, list |-> Tail(r.list)],
        r |-> Returns(r.list[1], FALSE)]
  ELSE [q |-> [count |-> r.count - 1,
               list |-> SubSeq(r.list, 1, index) \o SubSeq(r.list, index + 2, Len(r.list))],
        r |-> Returns(r.list[index + 1], FALSE)]

\* LinkedRandomizer.Enter.
LinkedRandomizerEnter(r, e) == [count |-> r.count + 1, list |-> <<e>> \o r.list]

\* LinkedRandomizer.Clear.
LinkedRandomizerClear(r) == [count |-> 0, list |-> <<>>]

\* ------------------------------------------------------------------- lists
\* ArrayList keeps a slice; LinkedList and SinglyLinkedList keep nodes in a
\* heap h of their own, a pointer being an index into it.

Min(a, b) == IF a < b THEN a ELSE b

\* copy(s[d:], src) of Go: as many elements as fit, src read before s is
\* written.
Copy(s, d, src) ==
  [j \in 1..Len(s) |->
     IF d < j /\ j <= d + Min(Len(s) - d, Len(src)) THEN src[j - d] ELSE s[j]]

\* The result of a call that returns an error instead of acting on list l.
Refused(l) == [q |-> l, r |-> Returns(NilValue, TRUE)]

\* new(ArrayList).
ZeroArrayList == [count |-> 0, store |-> <<>>]

\* ArrayList.Insert.
ArrayListInsert(l, i, e) ==
  IF i < 0 \/ l.count < i THEN Refused(l)
  ELSE LET store == IF Len(l.store) <= l.count THEN Append(l.store, Integer(0))
                    ELSE l.store
           moved == Copy(store, i + 1, SubSeq(store, i + 1, l.count))
       IN  [q |-> [count |-> l.count + 1, store |-> [moved EXCEPT ![i + 1] = e]],
            r |-> Returns(NilValue, FALSE)]

\* ArrayList.Delete.
ArrayListDelete(l, i) ==
  IF i < 0 \/ l.count <= i THEN Refused(l)
  ELSE [q |-> [count |-> l.count - 1,
               store |-> Copy(l.store, i, SubSeq(l.store, i + 2, l.count))],
        r |-> Returns(l.store[i + 1], FALSE)]

\* ArrayList.Get.
ArrayListGet(l, i) ==
  IF i < 0 \/ l.count <= i THEN Refused(l)
  ELSE [q |-> l, r |-> Returns(l.store[i + 1], FALSE)]

\* ArrayList.Put.
ArrayListPut(l, i, e) ==
  IF i < 0 \/ l.count <= i THEN Refused(l)
  ELSE [q |-> [l EXCEPT !.store[i + 1] = e], r |-> Returns(NilValue, FALSE)]

\* ArrayList.Clear.
ArrayListClear(l) == [l EXCEPT !.count = 0]

\* &node{item, pred, succ} of the LinkedList.
listNode(item, pred, succ) == [item |-> item, pred |-> pred, succ |-> succ]

\* new(LinkedList).
ZeroLinkedList ==
  [count |-> 0, head |-> NIL, tail |-> NIL, cursorPtr |-> NIL, cursorIdx |-> 0,
   h |-> <<>>]

abs(a) == IF a < 0 THEN -a ELSE a

\* The two loops of LinkedList.setCursor: backwards, then forwards.
RECURSIVE linkedWalk(_, _)
linkedWalk(l, index) ==
  IF index < l.cursorIdx
  THEN linkedWalk([l EXCEPT !.cursorIdx = l.cursorIdx - 1,
                            !.cursorPtr = l.h[l.cursorPtr].pred], index)
  ELSE IF l.cursorIdx < index
  THEN linkedWalk([l EXCEPT !.cursorIdx = l.cursorIdx + 1,
                            !.cursorPtr = l.h[l.cursorPtr].succ], index)
  ELSE l

\* LinkedList.setCursor continued: the test that starts from the tail.
linkedFromTail(l, index) ==
  linkedWalk(IF l.count - index < abs(l.cursorIdx - index)
             THEN [l EXCEPT !.cursorIdx = l.count - 1, !.cursorPtr = l.tail]
             ELSE l, index)

\* LinkedList.setCursor.
linkedSetCursor(l, index) ==
  linkedFromTail(IF l.cursorPtr = NIL \/ index < abs(l.cursorIdx - index)
                 THEN [l EXCEPT !.cursorIdx = 0, !.cursorPtr = l.head]
                 ELSE l, index)

\* LinkedList.Clear.
LinkedListClear(l) ==
  [l EXCEPT !.count = 0, !.head = NIL, !.tail = NIL, !.cursorPtr = NIL, !.cursorIdx = 0]

\* LinkedList.Insert at 0: p is the address of the new node.
linkedInsertFirst(l, e, p) ==
  [l EXCEPT !.h = IF l.head # NIL
                  THEN [Append(l.h, listNode(e, NIL, l.head)) EXCEPT ![l.head].pred = p]
                  ELSE Append(l.h, listNode(e, NIL, l.head)),
            !.head = p,
            !.tail = IF l.tail = NIL THEN p ELSE l.tail,
            !.cursorIdx = IF l.cursorPtr # NIL THEN l.cursorIdx + 1 ELSE l.cursorIdx,
            !.count = l.count + 1]

\* LinkedList.Insert at count.
linkedInsertLast(l, e, p) ==
  [l EXCEPT !.h = [Append(l.h, listNode(e, l.tail, NIL)) EXCEPT ![l.tail].succ = p],
            !.tail = p,
            !.count = l.count + 1]

\* LinkedList.Insert elsewhere, c being the list after setCursor(i).
linkedInsertBefore(c, e, p) ==
  [c EXCEPT !.h = [Append(c.h, listNode(e, c.h[c.cursorPtr].pred, c.cursorPtr))
                     EXCEPT ![c.h[c.cursorPtr].pred].succ = p,
                            ![c.cursorPtr].pred = p],
            !.cursorPtr = p,
            !.count = c.count + 1]

\* LinkedList.Insert.
LinkedListInsert(l, i, e) ==
  IF i < 0 \/ l.count < i THEN Refused(l)
  ELSE [q |-> IF i = 0 THEN linkedInsertFirst(l, e, Len(l.h) + 1)
              ELSE IF i = l.count THEN linkedInsertLast(l, e, Len(l.h) + 1)
              ELSE linkedInsertBefore(linkedSetCursor(l, i), e, Len(l.h) + 1),
        r |-> Returns(NilValue, FALSE)]

\* LinkedList.Delete at 0 of a list of two or more.
linkedDeleteFirst(l) ==
  [q |-> [l EXCEPT !.h = [l.h EXCEPT ![l.h[l.head].succ].pred = NIL],
                   !.head = l.h[l.head].succ,
                   !.cursorIdx = IF l.cursorIdx > 0 THEN l.cursorIdx - 1 ELSE l.cursorIdx,
                   !.cursorPtr = IF l.cursorIdx > 0 THEN l.cursorPtr ELSE l.h[l.head].succ,
                   !.count = l.count - 1],
   r |-> Returns(l.h[l.head].item, FALSE)]

\* LinkedList.Delete at count-1 of a list of two or more.
linkedDeleteLast(l) ==
  [q |-> [l EXCEPT !.h = [l.h EXCEPT ![l.h[l.tail].pred].succ = NIL],
                   !.tail = l.h[l.tail].pred,
                   !.cursorIdx = IF l.cursorIdx = l.count - 1 THEN l.count - 2
                                 ELSE l.cursorIdx,
                   !.cursorPtr = IF l.cursorIdx = l.count - 1 THEN l.h[l.tail].pred
                                 ELSE l.cursorPtr,
                   !.count = l.count - 1],
   r |-> Returns(l.h[l.tail].item, FALSE)]

\* LinkedList.Delete elsewhere, c being the list after setCursor(i).
linkedDeleteAt(c) ==
  [q |-> [c EXCEPT !.h = [c.h EXCEPT ![c.h[c.cursorPtr].pred].succ = c.h[c.cursorPtr].succ,
                                     ![c.h[c.cursorPtr].succ].pred = c.h[c.cursorPtr].pred],
                   !.cursorPtr = c.h[c.cursorPtr].succ,
                   !.count = c.count - 1],
   r |-> Returns(c.h[c.cursorPtr].item, FALSE)]

\* LinkedList.Delete.
LinkedListDelete(l, i) ==
  IF i < 0 \/ l.count <= i THEN Refused(l)
  ELSE IF l.count = 1
  THEN [q |-> LinkedListClear(l), r |-> Returns(l.h[l.head].item, FALSE)]
  ELSE IF i = 0 THEN linkedDeleteFirst(l)
  ELSE IF i = l.count - 1 THEN linkedDeleteLast(l)
  ELSE linkedDeleteAt(linkedSetCursor(l, i))

\* return list.cursorPtr.item, nil.
atCursor(c) == [q |-> c, r |-> Returns(c.h[c.cursorPtr].item, FALSE)]

\* list.cursorPtr.item = e.
putAtCursor(c, e) ==
  [q |-> [c EXCEPT !.h[c.cursorPtr].item = e], r |-> Returns(NilValue, FALSE)]

\* LinkedList.Get.
LinkedListGet(l, i) ==
  IF i < 0 \/ l.count <= i THEN Refused(l) ELSE atCursor(linkedSetCursor(l, i))

\* LinkedList.Put.
LinkedListPut(l, i, e) ==
  IF i < 0 \/ l.count <= i THEN Refused(l) ELSE putAtCursor(linkedSetCursor(l, i), e)

\* &snode{item, next} of the SinglyLinkedList.
snode(item, next) == [item |-> item, next |-> next]

\* new(SinglyLinkedList).
ZeroSinglyLinkedList ==
  [count |-> 0, head |-> NIL, cursorPtr |-> NIL, cursorIdx |-> 0, h |-> <<>>]

\* The loop of SinglyLinkedList.setCursor.
RECURSIVE singlyWalk(_, _)
singlyWalk(l, index) ==
  IF l.cursorIdx < index
  THEN singlyWalk([l EXCEPT !.cursorPtr = l.h[l.cursorPtr].next,
                            !.cursorIdx = l.cursorIdx + 1], index)
  ELSE l

\* A setCursor that never goes back to the head once the cursor is set.
singlySetCursorNoReturn(l, index) ==
  singlyWalk(IF l.cursorPtr = NIL
             THEN [l EXCEPT !.cursorPtr = l.head, !.cursorIdx = 0]
             ELSE l, index)

\* SinglyLinkedList.setCursor.
singlySetCursor(l, index) ==
  singlyWalk(IF l.cursorPtr = NIL \/ index < l.cursorIdx
             THEN [l EXCEPT !.cursorPtr = l.head, !.cursorIdx = 0]
             ELSE l, index)

\* SinglyLinkedList.Clear.
SinglyLinkedListClear(l) ==
  [l EXCEPT !.count = 0, !.head = NIL, !.cursorPtr = NIL, !.cursorIdx = 0]

\* SinglyLinkedList.Insert behind the cursor, c being the list after
\* setCursor(i-1).
singlyInsertAfter(c, e, p) ==
  [c EXCEPT !.h = [Append(c.h, snode(e, c.h[c.cursorPtr].next))
                     EXCEPT ![c.cursorPtr].next = p],
            !.count = c.count + 1]

\* SinglyLinkedList.Insert.
SinglyLinkedListInsert(l, i, e) ==
  IF i < 0 \/ l.count < i THEN Refused(l)
  ELSE [q |-> IF i = 0
              THEN [l EXCEPT !.h = Append(l.h, snode(e, l.head)),
                             !.head = Len(l.h) + 1,
                             !.cursorIdx = IF l.cursorPtr # NIL THEN l.cursorIdx + 1
                                           ELSE l.cursorIdx,
                             !.count = l.count + 1]
              ELSE singlyInsertAfter(singlySetCursor(l, i - 1), e, Len(l.h) + 1),
        r |-> Returns(NilValue, FALSE)]

\* SinglyLinkedList.Delete behind the cursor, c being the list after
\* setCursor(i-1).
singlyDeleteAfter(c) ==
  [q |-> [c EXCEPT !.h[c.cursorPtr].next = c.h[c.h[c.cursorPtr].next].next,
                   !.count = c.count - 1],
   r |-> Returns(c.h[c.h[c.cursorPtr].next].item, FALSE)]

\* SinglyLinkedList.Delete.
SinglyLinkedListDelete(l, i) ==
  IF i < 0 \/ l.count <= i THEN Refused(l)
  ELSE IF l.count = 1
  THEN [q |-> SinglyLinkedListClear(l), r |-> Returns(l.h[l.head].item, FALSE)]
  ELSE IF i = 0
  THEN [q |-> [l EXCEPT !.head = l.h[l.head].next,
                        !.cursorIdx = IF l.cursorIdx > 0 THEN l.cursorIdx - 1
                                      ELSE l.cursorIdx,
                        !.cursorPtr = IF l.cursorIdx > 0 THEN l.cursorPtr
                                      ELSE l.h[l.head].next,
                        !.count = l.count - 1],
        r |-> Returns(l.h[l.head].item, FALSE)]
  ELSE singlyDeleteAfter(singlySetCursor(l, i - 1))

\* SinglyLinkedList.Get.
SinglyLinkedListGet(l, i) ==
  IF i < 0 \/ l.count <= i THEN Refused(l) ELSE atCursor(singlySetCursor(l, i))

\* SinglyLinkedList.Put.
SinglyLinkedListPut(l, i, e) ==
  IF i < 0 \/ l.count <= i THEN Refused(l) ELSE putAtCursor(singlySetCursor(l, i), e)

\* ------------------------------------------------------------ the program

\* The pointer fields of a node, in declaration order.
links(k, n) == IF k = "T23" THEN <<n.left, n.mid, n.right>> ELSE <<n.left, n.right>>

\* What a node's kind does not use is dropped: value2 and right of a node
\* that is not a 3-node.
live(k, n) ==
  IF k = "T23" /\ n.nodeType # 3
  THEN [n EXCEPT !.value2 = NilValue, !.right = NIL]
  ELSE n

\* The nodes the garbage collector keeps: those reachable from the root
\* through the pointer fields, listed in depth-first order.
RECURSIVE reachable(_, _, _, _, _)
reachable(k, e, h, todo, order) ==
  IF todo = <<>> THEN order
  ELSE LET p == Head(todo) IN
       IF p = NIL \/ p \in Range(order) THEN reachable(k, e, h, Tail(todo), order)
       ELSE LET n == IF e THEN h[p] ELSE live(k, h[p])
            IN  reachable(k, e, h, links(k, n) \o Tail(todo), Append(order, p))

\* The new address of the node at p, its place in order.
to(order, p) == IF p = NIL THEN NIL ELSE CHOOSE i \in 1..Len(order) : order[i] = p

\* A node with its pointer fields renumbered.
move(k, order, n) ==
  IF k = "T23"
  THEN [n EXCEPT !.left = to(order, n.left), !.mid = to(order, n.mid),
                 !.right = to(order, n.right)]
  ELSE [n EXCEPT !.left = to(order, n.left), !.right = to(order, n.right)]

\* The tree with only the nodes of order, renumbered.
renumber(k, e, t, order) ==
  [h |-> [i \in 1..Len(order) |->
            move(k, order, IF e THEN t.h[order[i]] ELSE live(k, t.h[order[i]]))],
   root |-> to(order, t.root), count |-> t.count]

\* The heap after garbage collection, addresses renumbered in the order
\* above.  With e (exact) every field of every node is kept as the code left
\* it.  Without it the leftovers of nodes that are not 3-nodes (value2 and
\* right, which the code never clears) are dropped as well.
collect(k, e, t) == renumber(k, e, t, reachable(k, e, t.h, <<t.root>>, <<>>))

\* The tree object: its node heap, root and count fields.
tree == [h |-> heap, root |-> root, count |-> count]

\* Add(v) of the tree's type.
DoAdd(k, t, v) == CASE k = "BST" -> BSTAdd(t, v)
                    [] k = "AVL" -> AVLAdd(t, v)
                    [] k = "T23" -> T23Add(t, v)

\* Remove(v) of the tree's type.
DoRemove(k, t, v) == CASE k = "BST" -> BSTRemove(t, v)
                       [] k = "AVL" -> AVLRemove(t, v)
                       [] k = "T23" -> T23Remove(t, v)

\* Get(v) of the tree's type (AVLTree inherits BinarySearchTree.Get).
DoGet(k, t, v) == CASE k = "BST" -> BSTGet(t, v)
                    [] k = "AVL" -> BSTGet(t, v)
                    [] k = "T23" -> T23Get(t, v)

\* Contains(v) of the tree's type (AVLTree inherits BinarySearchTree.Contains).
DoContains(k, t, v) == CASE k = "BST" -> BSTContains(t, v)
                         [] k = "AVL" -> BSTContains(t, v)
                         [] k = "T23" -> T23Contains(t, v)

\* BinaryTree.Clear / TwoThreeTree.Clear.
DoClear(t) == [h |-> t.h, root |-> NIL, count |-> 0]

\* The inorder visit of the tree's type.
Inorder(k, t) == IF k = "T23" THEN T23Visit(t.h, t.root) ELSE VisitInorder(t.h, t.root)

\* The value passed to Remove and Get: only its key is read.
Probe(k) == KeyValue(k, 0)

\* The tree object becomes c.
Becomes(c) == heap' = c.h /\ root' = c.root /\ count' = c.count

\* The tree object after an operation left it as t, garbage collected.
Install(t) == Becomes(collect(kind, univ.exact, t))

Log(name) == op' = IF univ.log THEN name ELSE op

\* A test and the calls of it still to be made.
Script(test, calls) == [test |-> test, calls |-> calls]

NoScript == Script("none", <<>>)

\* No call of Next yet.  A call is recorded with what it returned and with
\* whether the call before it had returned false (again).
NoCall == [called |-> FALSE, value |-> NilValue, found |-> FALSE, again |-> FALSE]

\* An iterator with the calls made on it: whether it came from New...Iterator
\* with no Reset since, how many calls of Next returned true since it was
\* created or reset, and what the last call of Next returned.
Iterating(it, fresh, yielded, last) ==
  [it |-> it, fresh |-> fresh, yielded |-> yielded, last |-> last]

NoIter == Iterating(Iterator("none", <<>>, NIL, <<>>, NIL), FALSE, 0, NoCall)

NoCont == [type |-> "none"]

Init ==
  /\ kind \in Kinds
  /\ univ \in Universes(kind)
  /\ heap = <<>>
  /\ root = NIL
  /\ count = 0
  /\ stored = [k \in 1..univ.keys |-> 0]
  /\ op = "New"
  /\ iter = NoIter
  /\ cont = NoCont
  /\ script = NoScript

Add(k, p) ==
  /\ count < univ.keys + MaxExtra
  /\ Install(DoAdd(kind, tree, KeyValue(k, p)))
  /\ stored' = [stored EXCEPT ![k] = p]
  /\ Log(IF stored[k] = 0 THEN "Add" ELSE IF stored[k] = p THEN "Readd" ELSE "Replace")
  /\ UNCHANGED <<kind, univ, cont>>

Remove(k) ==
  /\ Install(DoRemove(kind, tree, Probe(k)))
  /\ stored' = [stored EXCEPT ![k] = 0]
  /\ Log(IF stored[k] = 0 THEN "RemoveMiss" ELSE "Remove")
  /\ UNCHANGED <<kind, univ, cont>>

Clear ==
  /\ Install(DoClear(tree))
  /\ stored' = [k \in Keys |-> 0]
  /\ Log("Clear")
  /\ UNCHANGED <<kind, univ, cont>>

\* A call on the tree ends the use of the iterator over it.
Abandon == iter' = NoIter /\ UNCHANGED script

Next ==
  \/ \E k \in Keys, p \in Payloads : Add(k, p) /\ Abandon
  \/ \E k \in Keys : Remove(k) /\ Abandon
  \/ Clear /\ Abandon

Spec == Init /\ [][Next]_vars

InitBST == Init /\ kind = "BST"
InitAVL == Init /\ kind = "AVL"
InitT23 == Init /\ kind = "T23"
SpecBST == InitBST /\ [][Next]_vars
SpecAVL == InitAVL /\ [][Next]_vars
SpecT23 == InitT23 /\ [][Next]_vars

\* The trees that are a BinaryTree (BinarySearchTree and AVLTree embed it),
\* in the universes that log their calls.
InitBinary == Init /\ kind \in {"BST", "AVL"} /\ univ.log
SpecBinary == InitBinary /\ [][Next]_vars

\* ------------------------------------------- trees under external iterators

\* The universes of the runs with iterators; "BT" is a plain BinaryTree made
\* by buildBinaryTree, whose values may repeat.
IterUniverses(k) ==
  CASE k = "BST" -> {Universe(IterKeys, 1, TRUE, FALSE)}
    [] k = "AVL" -> {Universe(IterKeys, 1, TRUE, FALSE)}
    [] k = "T23" -> {Universe(IterT23Keys, 1, FALSE, FALSE)}
    [] k = "BT" -> {Universe(BuiltValues, 1, TRUE, FALSE)}

InitIter ==
  /\ kind \in Kinds \cup {"BT"}
  /\ univ \in IterUniverses(kind)
  /\ heap = <<>>
  /\ root = NIL
  /\ count = 0
  /\ stored = [k \in 1..univ.keys |-> 0]
  /\ op = "New"
  /\ iter = NoIter
  /\ cont = NoCont
  /\ script = NoScript

\* The trees a test has at hand to build from: the empty tree, the tree
\* itself and its two subtrees.
Parts == {"empty", "whole", "left", "right"}

Part(t, sel) ==
  CASE sel = "empty" -> Result(t.h, NIL, 0, FALSE)
    [] sel = "whole" -> Result(t.h, t.root, t.count, FALSE)
    [] sel = "left" -> LeftSubtree(t)
    [] sel = "right" -> RightSubtree(t)

\* buildBinaryTree over the part r taken after the part l.
buildFrom(v, l, r) == buildBinaryTree(r.h, v, l, r)

\* tree = buildBinaryTree(v, l, r) for parts l and r of the tree.
Build(v, l, r) ==
  /\ kind = "BT"
  /\ Part(tree, l).count + Part(tree, r).count < MaxBuilt
  /\ Becomes(collect("BST", TRUE,
                     buildFrom(v, Part(tree, l),
                               Part([tree EXCEPT !.h = Part(tree, l).h], r))))
  /\ UNCHANGED <<kind, univ, stored, op, cont>>
  /\ Abandon

\* The orders an iterator over the tree can have.
Orders == IF kind = "T23" THEN {"t23"} ELSE {"pre", "in", "post"}

\* NewPreorderIterator, NewInorderIterator, NewPostorderIterator of a binary
\* tree; NewIterator of a TwoThreeTree.
NewIter(order) ==
  /\ iter' = Iterating(NewIterator(order, heap, root), TRUE, 0, NoCall)
  /\ UNCHANGED <<kind, univ, heap, root, count, stored, op, script, cont>>

\* The nodes of its own that the iterator still has on its stack (those
\* above the tree's nodes), from the bottom of the stack up.
RECURSIVE owned(_, _)
owned(base, s) ==
  IF s = <<>> THEN <<>>
  ELSE owned(base, Tail(s)) \o (IF Head(s) > base THEN <<Head(s)>> ELSE <<>>)

\* The iterator with only the nodes of keep left of its own, renumbered.
kept(base, it, keep) ==
  [it EXCEPT !.h = [i \in 1..(base + Len(keep)) |->
                      IF i <= base THEN it.h[i] ELSE it.h[keep[i - base]]],
             !.stack = [i \in 1..Len(it.stack) |->
                          IF it.stack[i] <= base THEN it.stack[i]
                          ELSE base + to(keep, it.stack[i])]]

\* The iterator after garbage collection: the nodes it allocated and no
\* longer has on its stack are gone.
tidy(it) == kept(Len(heap), it, owned(Len(heap), it.stack))

\* The iterator after a call of Next that returned n.
Called(n) ==
  Iterating(tidy(n.it), iter.fresh, iter.yielded + (IF n.found THEN 1 ELSE 0),
            [called |-> TRUE, value |-> n.value, found |-> n.found,
             again |-> iter.last.called /\ ~iter.last.found])

\* iter.Next().
CallNext ==
  /\ iter # NoIter
  /\ iter' = Called(IterNext(iter.it))
  /\ UNCHANGED <<kind, univ, heap, root, count, stored, op, script, cont>>

\* iter.Reset().
CallReset ==
  /\ iter # NoIter
  /\ iter' = Iterating(tidy(Reset(iter.it)), FALSE, 0, NoCall)
  /\ UNCHANGED <<kind, univ, heap, root, count, stored, op, script, cont>>

NextIter ==
  \/ \E k \in Keys, p \in Payloads : kind # "BT" /\ Add(k, p) /\ Abandon
  \/ \E k \in Keys : kind # "BT" /\ Remove(k) /\ Abandon
  \/ Clear /\ Abandon
  \/ \E k \in Keys, l \in Parts, r \in Parts : Build(KeyValue(k, 1), l, r)
  \/ \E order \in Orders : NewIter(order)
  \/ CallNext
  \/ CallReset

SpecIter == InitIter /\ [][NextIter]_vars

\* ------------------------------------------------- the runs of the tests

\* The largest key of the tests.
ScriptKeys == 70

AddCall(k) == [op |-> "Add", key |-> k]
RemoveCall(k) == [op |-> "Remove", key |-> k]
ClearCall == [op |-> "Clear", key |-> 0]

\* Add, or Remove, called with each key of a list in turn.
Adds(keys) == [i \in 1..Len(keys) |-> AddCall(keys[i])]
Removes(keys) == [i \in 1..Len(keys) |-> RemoveCall(keys[i])]

\* TestNonEmptyAVLTree: the keys added, the keys then removed, and the keys
\* added and removed after Clear.
ScenarioA == <<20, 10, 5, 8, 7, 3, 15, 30, 25, 30, 27, 15, 18, 26>>
ScenarioARemoved == <<30, 8, 20, 3, 5, 15, 25, 10>>
EmptyingAdded == <<10, 25, 27, 3>>
EmptyingRemoved == <<10, 3, 27, 25>>

AVLScript ==
  Adds(ScenarioA) \o Removes(ScenarioARemoved) \o <<ClearCall>>
  \o Adds(EmptyingAdded) \o Removes(EmptyingRemoved)

\* TestNonEmptyBinarySearchTree.
BSTScript ==
  Adds(<<20, 10, 30, 5, 15, 25, 30, 27, 3, 15, 18, 26>>)
  \o Removes(<<8, 15, 3, 25, 20, 30, 10>>) \o <<ClearCall>>
  \o Adds(EmptyingAdded) \o Removes(EmptyingRemoved)

\* makeTestTree: the keys added.
ScenarioB == <<30, 40, 25, 25, 50, 20, 22, 27, 24, 35, 10, 45>>

\* TestDelete: the keys removed from the tree of makeTestTree, 50 and 30
\* twice.
ScenarioC == <<45, 50, 50, 40, 35, 24, 22, 25, 10, 20, 27, 30, 30>>

\* TestDelete.
T23Script ==
  Adds(ScenarioB) \o Removes(ScenarioC)
  \o Adds(<<30, 40, 50, 10, 60, 70>>) \o Removes(<<70>>)
  \o Adds(<<45>>) \o Removes(<<60, 10>>)
  \o Adds(<<10, 20, 60, 15, 25, 35>>) \o Removes(<<30>>)
  \o Adds(<<5, 8, 12, 18, 70>>) \o Removes(<<35>>)
  \o Adds(<<55>>) \o Removes(<<12, 8>>)

Scripts ==
  {Script("BST", BSTScript), Script("AVL", AVLScript), Script("T23", T23Script)}

\* Each script is run on a new tree of each type; every key has one payload.
InitScript ==
  /\ kind \in Kinds
  /\ univ = Universe(ScriptKeys, 1, TRUE, TRUE)
  /\ heap = <<>>
  /\ root = NIL
  /\ count = 0
  /\ stored = [k \in 1..univ.keys |-> 0]
  /\ op = "New"
  /\ iter = NoIter
  /\ cont = NoCont
  /\ script \in Scripts

\* The next call of the script is made.
Play(call) ==
  /\ script.calls # <<>>
  /\ Head(script.calls).op = call
  /\ script' = Script(script.test, Tail(script.calls))
  /\ UNCHANGED iter

PlayAdd == Play("Add") /\ Add(Head(script.calls).key, 1)

PlayRemove == Play("Remove") /\ Remove(Head(script.calls).key)

PlayClear == Play("Clear") /\ Clear

NextScript == PlayAdd \/ PlayRemove \/ PlayClear

SpecScript == InitScript /\ [][NextScript]_vars

\* ------------------------------------------------------ the maps, side by side
\* A TreeMap (heap, root, count hold its AVLTree) and a HashMap (cont holds
\* its HashTable) receive the same calls; stored is the map they should hold.

InitMap ==
  /\ kind = "Map"
  /\ univ = Universe(MapKeys, MapValues, TRUE, TRUE)
  /\ heap = ZeroTreeMap.h /\ root = ZeroTreeMap.root /\ count = ZeroTreeMap.count
  /\ cont = ZeroHashTable
  /\ stored = [k \in 1..univ.keys |-> 0]
  /\ op = "New"
  /\ iter = NoIter
  /\ script = NoScript

\* m.Insert(k, v) on both maps.
MapInsert(k, v) ==
  /\ count < univ.keys + MaxExtra
  /\ Becomes(collect("AVL", TRUE, TreeMapInsert(tree, k, v)))
  /\ cont' = HashMapInsert(cont, k, v)
  /\ stored' = [stored EXCEPT ![k] = v]
  /\ op' = IF stored[k] = 0 THEN "Add" ELSE "Replace"
  /\ UNCHANGED <<kind, univ, iter, script>>

\* m.Delete(k) on both maps.
MapDelete(k) ==
  /\ Becomes(collect("AVL", TRUE, TreeMapDelete(tree, k)))
  /\ cont' = HashMapDelete(cont, k)
  /\ stored' = [stored EXCEPT ![k] = 0]
  /\ op' = IF stored[k] = 0 THEN "RemoveMiss" ELSE "Remove"
  /\ UNCHANGED <<kind, univ, iter, script>>

\* m.Clear() on both maps.
MapClear ==
  /\ Becomes(collect("AVL", TRUE, TreeMapClear(tree)))
  /\ cont' = HashMapClear(cont)
  /\ stored' = [k \in Keys |-> 0]
  /\ op' = "Clear"
  /\ UNCHANGED <<kind, univ, iter, script>>

NextMap ==
  \/ \E k \in Keys, v \in Payloads : MapInsert(k, v)
  \/ \E k \in Keys : MapDelete(k)
  \/ MapClear

SpecMap == InitMap /\ [][NextMap]_vars

\* --------------------------------------------------- the hash table on its own
\* cont is a HashTable with keys 0..HashKeys hashed by HashModulo, so that
\* keys collide; stored[k] is the value last inserted for k and not deleted
\* since (0: none); op is the last call.

HashKeySet == 0..HashKeys

InitHash ==
  /\ kind = "HashTable"
  /\ univ = Universe(HashKeys, HashValues, TRUE, TRUE)
  /\ heap = <<>>
  /\ root = NIL
  /\ count = 0
  /\ cont \in {NewHashTable(<<HashSlots>>), ZeroHashTable}
  /\ stored = [k \in HashKeySet |-> 0]
  /\ op = "New"
  /\ iter = NoIter
  /\ script = NoScript

HashFrame == UNCHANGED <<kind, univ, heap, root, count, iter, script>>

\* table.Insert(k, v).
HashInsert(k, v) ==
  /\ cont' = HashTableInsert(cont, k, v)
  /\ stored' = [stored EXCEPT ![k] = v]
  /\ op' = IF stored[k] = 0 THEN "Add" ELSE "Replace"
  /\ HashFrame

\* table.Delete(k).
HashDelete(k) ==
  /\ cont' = HashTableDelete(cont, k)
  /\ stored' = [stored EXCEPT ![k] = 0]
  /\ op' = IF stored[k] = 0 THEN "RemoveMiss" ELSE "Remove"
  /\ HashFrame

\* table.Get(k).
HashGet(k) ==
  /\ cont' = HashTableGet(cont, k).t
  /\ op' = "Get"
  /\ UNCHANGED stored
  /\ HashFrame

\* table.Clear().
HashClear ==
  /\ cont' = HashTableClear(cont)
  /\ stored' = [k \in HashKeySet |-> 0]
  /\ op' = "Clear"
  /\ HashFrame

NextHash ==
  \/ \E k \in HashKeySet, v \in 1..HashValues : HashInsert(k, v)
  \/ \E k \in HashKeySet : HashDelete(k)
  \/ \E k \in HashKeySet : HashGet(k)
  \/ HashClear

SpecHash == InitHash /\ [][NextHash]_vars

\* ------------------------------------------------------- the queues at work
\* cont is the queue (kind says which type), stored the elements that entered
\* and have not left, oldest first, and op the last call with what it
\* returned.  A call that panicked ends the run.

QueueKinds == {"ArrayQueue", "LinkedQueue"}

Did(name, r) == [name |-> name, r |-> r]

QueueFront(q) == IF kind = "ArrayQueue" THEN ArrayQueueFront(q) ELSE LinkedQueueFront(q)

QueueLeave(q) == IF kind = "ArrayQueue" THEN ArrayQueueLeave(q) ELSE LinkedQueueLeave(q)

QueueEnter(q, e) ==
  IF kind = "ArrayQueue" THEN ArrayQueueEnter(q, e) ELSE LinkedQueueEnter(q, e)

QueueClear(q) == IF kind = "ArrayQueue" THEN ArrayQueueClear(q) ELSE LinkedQueueClear(q)

InitQueue ==
  /\ kind \in QueueKinds
  /\ univ = Universe(MaxQueue, QueueValues, TRUE, TRUE)
  /\ heap = <<>>
  /\ root = NIL
  /\ count = 0
  /\ cont = IF kind = "ArrayQueue" THEN ZeroArrayQueue ELSE ZeroLinkedQueue
  /\ stored = <<>>
  /\ op = Did("New", Returns(NilValue, FALSE))
  /\ iter = NoIter
  /\ script = NoScript

QueueFrame == UNCHANGED <<kind, univ, heap, root, count, iter, script>>

\* q.Enter(e).
Enter(e) ==
  /\ ~op.r.panic
  /\ Len(stored) < MaxQueue
  /\ cont' = QueueEnter(cont, e)
  /\ stored' = Append(stored, e)
  /\ op' = Did("Enter", Returns(NilValue, FALSE))
  /\ QueueFrame

\* q.Front().
Front ==
  /\ ~op.r.panic
  /\ cont' = QueueFront(cont).q
  /\ op' = Did("Front", QueueFront(cont).r)
  /\ UNCHANGED stored
  /\ QueueFrame

\* q.Leave().
Leave ==
  /\ ~op.r.panic
  /\ cont' = QueueLeave(cont).q
  /\ op' = Did("Leave", QueueLeave(cont).r)
  /\ stored' = IF stored = <<>> THEN stored ELSE Tail(stored)
  /\ QueueFrame

\* q.Clear().
ClearQueue ==
  /\ ~op.r.panic
  /\ cont' = QueueClear(cont)
  /\ stored' = <<>>
  /\ op' = Did("Clear", Returns(NilValue, FALSE))
  /\ QueueFrame

NextQueue ==
  \/ \E e \in 1..QueueValues : Enter(Integer(e))
  \/ Front
  \/ Leave
  \/ ClearQueue

SpecQueue == InitQueue /\ [][NextQueue]_vars

\* -------------------------------------------------- the randomizers at work
\* cont is the randomizer (kind says which type) and stored counts, for each
\* element, how many of it entered and have not left.  The index that
\* rand.Intn(r.count) returns is any of 0..count-1.

RandomizerKinds == {"ArrayRandomizer", "LinkedRandomizer"}

Elements == {Integer(e) : e \in 1..QueueValues}

RandomizerLeave(r, index) ==
  IF kind = "ArrayRandomizer" THEN ArrayRandomizerLeave(r, index)
  ELSE LinkedRandomizerLeave(r, index)

RandomizerEnter(r, e) ==
  IF kind = "ArrayRandomizer" THEN ArrayRandomizerEnter(r, e)
  ELSE LinkedRandomizerEnter(r, e)

RandomizerClear(r) ==
  IF kind = "ArrayRandomizer" THEN ArrayRandomizerClear(r) ELSE LinkedRandomizerClear(r)

\* The values rand.Intn(n) can return (none is drawn on an empty randomizer).
Intn(n) == IF n = 0 THEN {0} ELSE 0..(n - 1)

InitRandomizer ==
  /\ kind \in RandomizerKinds
  /\ univ = Universe(MaxQueue, QueueValues, TRUE, TRUE)
  /\ heap = <<>>
  /\ root = NIL
  /\ count = 0
  /\ cont = IF kind = "ArrayRandomizer" THEN ZeroArrayRandomizer ELSE ZeroLinkedRandomizer
  /\ stored = [e \in Elements |-> 0]
  /\ op = Did("New", Returns(NilValue, FALSE))
  /\ iter = NoIter
  /\ script = NoScript

\* r.Enter(e).
RandomizerEnters(e) ==
  /\ cont.count < MaxQueue
  /\ cont' = RandomizerEnter(cont, e)
  /\ stored' = [stored EXCEPT ![e] = @ + 1]
  /\ op' = Did("Enter", Returns(NilValue, FALSE))
  /\ QueueFrame

\* r.Leave(), rand.Intn returning index.
RandomizerLeaves(index) ==
  LET l == RandomizerLeave(cont, index)
  IN  /\ cont' = l.q
      /\ op' = Did("Leave", l.r)
      /\ stored' = IF l.r.err \/ l.r.value \notin Elements THEN stored
                   ELSE [stored EXCEPT ![l.r.value] = @ - 1]
      /\ QueueFrame

\* r.Clear().
RandomizerClears ==
  /\ cont' = RandomizerClear(cont)
  /\ stored' = [e \in Elements |-> 0]
  /\ op' = Did("Clear", Returns(NilValue, FALSE))
  /\ QueueFrame

NextRandomizer ==
  \/ \E e \in Elements : RandomizerEnters(e)
  \/ \E index \in Intn(cont.count) : RandomizerLeaves(index)
  \/ RandomizerClears

SpecRandomizer == InitRandomizer /\ [][NextRandomizer]_vars

\* --------------------------------------------------------- the lists at work
\* cont is the list (kind says which type), stored the sequence it should
\* hold, and op the last call with what it returned.  The nodes of the linked
\* lists are garbage collected after each call and renumbered in the order
\* in which they are reached from head, cursorPtr and tail.

ListKinds == {"ArrayList", "LinkedList", "SinglyLinkedList"}

ListInsert(l, i, e) ==
  CASE kind = "ArrayList" -> ArrayListInsert(l, i, e)
    [] kind = "LinkedList" -> LinkedListInsert(l, i, e)
    [] kind = "SinglyLinkedList" -> SinglyLinkedListInsert(l, i, e)

ListDelete(l, i) ==
  CASE kind = "ArrayList" -> ArrayListDelete(l, i)
    [] kind = "LinkedList" -> LinkedListDelete(l, i)
    [] kind = "SinglyLinkedList" -> SinglyLinkedListDelete(l, i)

ListGet(l, i) ==
  CASE kind = "ArrayList" -> ArrayListGet(l, i)
    [] kind = "LinkedList" -> LinkedListGet(l, i)
    [] kind = "SinglyLinkedList" -> SinglyLinkedListGet(l, i)

ListPut(l, i, e) ==
  CASE kind = "ArrayList" -> ArrayListPut(l, i, e)
    [] kind = "LinkedList" -> LinkedListPut(l, i, e)
    [] kind = "SinglyLinkedList" -> SinglyLinkedListPut(l, i, e)

ListClear(l) ==
  CASE kind = "ArrayList" -> ArrayListClear(l)
    [] kind = "LinkedList" -> LinkedListClear(l)
    [] kind = "SinglyLinkedList" -> SinglyLinkedListClear(l)

ZeroList ==
  CASE kind = "ArrayList" -> ZeroArrayList
    [] kind = "LinkedList" -> ZeroLinkedList
    [] kind = "SinglyLinkedList" -> ZeroSinglyLinkedList

\* The pointer fields of a list node.
listLinks(n) == IF "succ" \in DOMAIN n THEN <<n.succ, n.pred>> ELSE <<n.next>>

\* The pointer fields of a list object.
listRoots(l) ==
  IF "tail" \in DOMAIN l THEN <<l.head, l.cursorPtr, l.tail>> ELSE <<l.head, l.cursorPtr>>

\* The nodes the garbage collector keeps, in depth-first order.
RECURSIVE listReachable(_, _, _)
listReachable(h, todo, order) ==
  IF todo = <<>> THEN order
  ELSE IF Head(todo) = NIL \/ Head(todo) \in Range(order)
  THEN listReachable(h, Tail(todo), order)
  ELSE listReachable(h, listLinks(h[Head(todo)]) \o Tail(todo), Append(order, Head(todo)))

\* A list node with its pointer fields renumbered.
listMove(order, n) ==
  IF "succ" \in DOMAIN n
  THEN [n EXCEPT !.succ = to(order, n.succ), !.pred = to(order, n.pred)]
  ELSE [n EXCEPT !.next = to(order, n.next)]

\* The list object with only the nodes of order, renumbered.
listRenumber(l, order) ==
  LET moved == [l EXCEPT !.h = [i \in 1..Len(order) |-> listMove(order, l.h[order[i]])],
                        !.head = to(order, l.head),
                        !.cursorPtr = to(order, l.cursorPtr)]
  IN  IF "tail" \in DOMAIN l THEN [moved EXCEPT !.tail = to(order, l.tail)] ELSE moved

\* The list after garbage collection (an ArrayList has no nodes).
listCollect(l) ==
  IF "h" \in DOMAIN l THEN listRenumber(l, listReachable(l.h, listRoots(l), <<>>)) ELSE l

\* The sequence s with e put at index i, without its element at index i, and
\* with e in place of its element at index i (indices from 0).
SeqInsert(s, i, e) == SubSeq(s, 1, i) \o <<e>> \o SubSeq(s, i + 1, Len(s))

SeqDelete(s, i) == SubSeq(s, 1, i) \o SubSeq(s, i + 2, Len(s))

SeqPut(s, i, e) == [s EXCEPT ![i + 1] = e]

\* The indices the calls are made with: one below and one above the range.
Indices == (0 - 1)..(MaxList + 1)

ListValueSet == {Integer(e) : e \in 1..ListValues}

InitList ==
  /\ kind \in ListKinds
  /\ univ = Universe(MaxList, ListValues, TRUE, TRUE)
  /\ heap = <<>>
  /\ root = NIL
  /\ count = 0
  /\ cont = ZeroList
  /\ stored = <<>>
  /\ op = Did("New", Returns(NilValue, FALSE))
  /\ iter = NoIter
  /\ script = NoScript

\* list.Insert(i, e).
Inserts(i, e) ==
  /\ cont.count < MaxList
  /\ cont' = listCollect(ListInsert(cont, i, e).q)
  /\ op' = Did("Insert", ListInsert(cont, i, e).r)
  /\ stored' = IF 0 <= i /\ i <= Len(stored) THEN SeqInsert(stored, i, e) ELSE stored
  /\ QueueFrame

\* list.Delete(i).
Deletes(i) ==
  /\ cont' = listCollect(ListDelete(cont, i).q)
  /\ op' = Did("Delete", ListDelete(cont, i).r)
  /\ stored' = IF 0 <= i /\ i < Len(stored) THEN SeqDelete(stored, i) ELSE stored
  /\ QueueFrame

\* list.Get(i).
Gets(i) ==
  /\ cont' = listCollect(ListGet(cont, i).q)
  /\ op' = Did("Get", ListGet(cont, i).r)
  /\ UNCHANGED stored
  /\ QueueFrame

\* list.Put(i, e).
Puts(i, e) ==
  /\ cont' = listCollect(ListPut(cont, i, e).q)
  /\ op' = Did("Put", ListPut(cont, i, e).r)
  /\ stored' = IF 0 <= i /\ i < Len(stored) THEN SeqPut(stored, i, e) ELSE stored
  /\ QueueFrame

\* list.Clear().
Clears ==
  /\ cont' = listCollect(ListClear(cont))
  /\ op' = Did("Clear", Returns(NilValue, FALSE))
  /\ stored' = <<>>
  /\ QueueFrame

NextList ==
  \/ \E i \in Indices, e \in ListValueSet : Inserts(i, e)
  \/ \E i \in Indices : Deletes(i)
  \/ \E i \in Indices : Gets(i)
  \/ \E i \in Indices, e \in ListValueSet : Puts(i, e)
  \/ Clears

SpecList == InitList /\ [][NextList]_vars

\* ---------------------------------------------- two iterators over one tree
\* cont holds the LinkedStack objects allocated so far and the iterators,
\* each with the stack it points to, the nodes it sees (the tree's and those
\* it has allocated) and, as a ghost, the number of values it has returned
\* since it was made or reset.

\* new(stack.LinkedStack) handing out the first stack again.
newStackShared(stacks) ==
  [stacks |-> IF stacks = <<>> THEN << <<>> >> ELSE stacks, ref |-> 1]

\* new(stack.LinkedStack): a new, empty stack object.
newStack(stacks) == [stacks |-> Append(stacks, <<>>), ref |-> Len(stacks) + 1]

NoIterators == [type |-> "iterators", stacks |-> <<>>, its |-> <<>>]

\* Iterator i as the methods see it: its fields, with the stack it points to.
View(c, i) ==
  Iterator(c.its[i].order, c.its[i].h, c.its[i].root,
           c.stacks[c.its[i].stack], c.its[i].nextNode)

\* Iterator i after a method has left it as it.
Held(c, i, it, pos) ==
  [c EXCEPT !.stacks[c.its[i].stack] = it.stack,
            !.its[i].h = it.h, !.its[i].nextNode = it.nextNode,
            !.its[i].pos = pos]

\* new(...Iterator), its stack and its root.
Allocated(c, order, s) ==
  [c EXCEPT !.stacks = s.stacks,
            !.its = Append(c.its, [order |-> order, root |-> root, stack |-> s.ref,
                                   nextNode |-> NIL, h |-> heap, pos |-> 0])]

\* The last statement of New...Iterator: result.Reset().
Made(c) == Held(c, Len(c.its), Reset(View(c, Len(c.its))), 0)

\* NewPreorderIterator, NewInorderIterator, NewPostorderIterator, NewIterator.
MakeIterator(c, order) == Made(Allocated(c, order, newStack(c.stacks)))

TwoUniverse(k) == Universe(IF k = "T23" THEN TwoT23Keys ELSE TwoKeys, 1, k # "T23", FALSE)

InitTwo ==
  /\ kind \in {"BST", "T23"}
  /\ univ = TwoUniverse(kind)
  /\ heap = <<>>
  /\ root = NIL
  /\ count = 0
  /\ stored = [k \in 1..univ.keys |-> 0]
  /\ op = "New"
  /\ iter = NoIter
  /\ cont = NoCont
  /\ script = NoScript

\* Two iterators are made over the tree, which is not changed afterwards.
NewIterators(o1, o2) ==
  /\ cont = NoCont
  /\ cont' = MakeIterator(MakeIterator(NoIterators, o1), o2)
  /\ UNCHANGED <<kind, univ, heap, root, count, stored, op, iter, script>>

\* Next() on iterator i.
TwoNext(i) ==
  /\ cont # NoCont
  /\ cont' = Held(cont, i, tidy(IterNext(View(cont, i)).it),
                  cont.its[i].pos + (IF IterNext(View(cont, i)).found THEN 1 ELSE 0))
  /\ UNCHANGED <<kind, univ, heap, root, count, stored, op, iter, script>>

\* Reset() on iterator i.
TwoReset(i) ==
  /\ cont # NoCont
  /\ cont' = Held(cont, i, tidy(Reset(View(cont, i))), 0)
  /\ UNCHANGED <<kind, univ, heap, root, count, stored, op, iter, script>>

NextTwo ==
  \/ \E k \in Keys, p \in Payloads : cont = NoCont /\ Add(k, p) /\ Abandon
  \/ \E k \in Keys : cont = NoCont /\ Remove(k) /\ Abandon
  \/ \E o1 \in Orders, o2 \in Orders : NewIterators(o1, o2)
  \/ \E i \in 1..2 : TwoNext(i)
  \/ \E i \in 1..2 : TwoReset(i)

SpecTwo == InitTwo /\ [][NextTwo]_vars

\* ------------------------------------- one call sequence on the three trees

\* A tree object with nothing in it.
EmptyTree == [h |-> <<>>, root |-> NIL, count |-> 0]

\* An AVLTree and a TwoThreeTree kept next to the BinarySearchTree of heap,
\* root and count.
Trees(avl, t23) == [type |-> "trees", avl |-> avl, t23 |-> t23]

InitThree ==
  /\ kind = "BST"
  /\ univ = Universe(ThreeKeys, NumPayloads, FALSE, TRUE)
  /\ heap = <<>>
  /\ root = NIL
  /\ count = 0
  /\ stored = [k \in 1..univ.keys |-> 0]
  /\ op = "New"
  /\ iter = NoIter
  /\ cont = Trees(EmptyTree, EmptyTree)
  /\ script = NoScript

\* Add(v) on each of the three trees.
ThreeAdd(k, p) ==
  /\ cont.avl.count < univ.keys + MaxExtra
  /\ Install(BSTAdd(tree, KeyValue(k, p)))
  /\ cont' = Trees(collect("AVL", univ.exact, AVLAdd(cont.avl, KeyValue(k, p))),
                   collect("T23", univ.exact, T23Add(cont.t23, KeyValue(k, p))))
  /\ stored' = [stored EXCEPT ![k] = p]
  /\ Log(IF stored[k] = 0 THEN "Add" ELSE IF stored[k] = p THEN "Readd" ELSE "Replace")
  /\ UNCHANGED <<kind, univ, iter, script>>

\* Remove(v) on each of the three trees.
ThreeRemove(k) ==
  /\ Install(BSTRemove(tree, Probe(k)))
  /\ cont' = Trees(collect("AVL", univ.exact, AVLRemove(cont.avl, Probe(k))),
                   collect("T23", univ.exact, T23Remove(cont.t23, Probe(k))))
  /\ stored' = [stored EXCEPT ![k] = 0]
  /\ Log(IF stored[k] = 0 THEN "RemoveMiss" ELSE "Remove")
  /\ UNCHANGED <<kind, univ, iter, script>>

NextThree ==
  \/ \E k \in Keys, p \in Payloads : ThreeAdd(k, p)
  \/ \E k \in Keys : ThreeRemove(k)

SpecThree == InitThree /\ [][NextThree]_vars

\* ------------------------------------------------------------- properties

\* The height of the subtree at node, counted from its shape (not the stored
\* height field); a missing child counts as -1.
RECURSIVE trueHeight(_, _)
trueHeight(h, node) ==
  IF node = NIL THEN -1
  ELSE 1 + Max(trueHeight(h, h[node].left), trueHeight(h, h[node].right))

\* After garbage collection the heap holds exactly the nodes reachable from
\* the root.
Nodes == 1..Len(heap)

\* The stored values from key k on, in increasing key order.
RECURSIVE storedFrom(_)
storedFrom(k) ==
  IF k > univ.keys THEN <<>>
  ELSE (IF stored[k] # 0 THEN <<KeyValue(k, stored[k])>> ELSE <<>>) \o storedFrom(k + 1)

\* The stored values in increasing key order.
StoredInOrder == storedFrom(1)

\* Strictly increasing key order.
Sorted(s) == \A i \in 1..(Len(s) - 1) : Less(s[i], s[i + 1])

\* What Get returns for a stored value.
Found(v) == [value |-> v, found |-> TRUE]

\* What Get returns where there is none: (nil, false).
NotFound == [value |-> NilValue, found |-> FALSE]

\* The keys Remove and Get are called with: those of the universe and one
\* below and one above them, which are never stored.
Probes == 0..(univ.keys + 1)

\* A value of key k is stored.
IsStored(k) == k \in Keys /\ stored[k] # 0

\* The children a 2-3 node has by its nodeType.
children(h, r) ==
  CASE h[r].nodeType = 3 -> {h[r].left, h[r].mid, h[r].right}
    [] h[r].nodeType = 2 -> {h[r].left, h[r].mid}
    [] OTHER -> {h[r].left}

\* The depths of the leaves below r, r being at depth d.
RECURSIVE leafDepths(_, _, _)
leafDepths(h, r, d) ==
  IF r = NIL THEN {}
  ELSE IF isLeaf(h, r) THEN {d}
  ELSE UNION {leafDepths(h, c, d + 1) : c \in children(h, r)}

\* The 2-3 node n respects the search order.
NodeOrdered(h, n) ==
  IF isLeaf(h, n) THEN h[n].nodeType = 3 => Less(h[n].value1, h[n].value2)
  ELSE /\ \A a \in Range(t23visitInorder(h, h[n].left)) : Less(a, h[n].value1)
       /\ \A b \in Range(t23visitInorder(h, h[n].mid)) :
             /\ Less(h[n].value1, b)
             /\ h[n].nodeType = 3 => Less(b, h[n].value2)
       /\ h[n].nodeType = 3 =>
             \A c \in Range(t23visitInorder(h, h[n].right)) : Less(h[n].value2, c)

\* C1: in an AVLTree, after any sequence of Add and Remove calls, the true
\* heights of the two subtrees of every reachable node differ by at most 1
\* (a missing child counting as -1).
C1_AVLBalanced ==
  kind = "AVL" =>
    \A n \in Nodes :
      trueHeight(heap, heap[n].left) - trueHeight(heap, heap[n].right) \in -1..1

\* A Remove has left an AVL tree of four or more nodes from which the removal
\* of a stored key other than the root's rotates at the root (the root node
\* takes another value).
C1_Witness ==
  /\ kind = "AVL" /\ op = "Remove" /\ Len(heap) >= 4
  /\ \E k \in Keys :
       /\ stored[k] # 0 /\ k # heap[root].value.key
       /\ AVLRemove(tree, Probe(k)).h[root].value # heap[root].value

\* C2: in a TwoThreeTree, after any sequence of Add and Remove calls, all
\* leaves are at the same depth, and every internal node has the children of
\* its node type (perfect balance).
C2_T23LeavesLevel ==
  kind = "T23" =>
    /\ Cardinality(leafDepths(heap, root, 0)) <= 1
    /\ \A n \in Nodes : ~isLeaf(heap, n) => NIL \notin children(heap, n)

\* A Remove has left a 2-3 tree of height 1 holding four or more values.
C2_Witness ==
  /\ kind = "T23" /\ op = "Remove" /\ root # NIL
  /\ t23height(heap, root) = 1 /\ count >= 4

\* C3: in a BinarySearchTree or an AVLTree, after any sequence of Add and
\* Remove calls, the inorder traversal yields the stored values, each with the
\* payload last added, in strictly increasing key order.
C3_BinaryInorderSorted ==
  kind \in {"BST", "AVL"} =>
    /\ VisitInorder(heap, root) = StoredInOrder
    /\ Sorted(VisitInorder(heap, root))

\* A Remove has left a binary search tree whose root has two children.
C3_Witness ==
  /\ kind = "BST" /\ op = "Remove" /\ root # NIL
  /\ heap[root].left # NIL /\ heap[root].right # NIL

\* C4: in a TwoThreeTree, after any sequence of Add and Remove calls, every
\* node respects the search order (left subtree < value1 < mid subtree, and
\* in a 3-node < value2 < right subtree), and Visit yields the stored values
\* in strictly increasing key order.
C4_T23Ordered ==
  kind = "T23" =>
    /\ \A n \in Nodes : NodeOrdered(heap, n)
    /\ T23Visit(heap, root) = StoredInOrder
    /\ Sorted(T23Visit(heap, root))

\* A Remove has left a 2-3 tree whose root is a 3-node with three leaves.
C4_Witness ==
  /\ kind = "T23" /\ op = "Remove" /\ root # NIL
  /\ heap[root].nodeType = 3 /\ ~isLeaf(heap, root)

\* C5: in an AVLTree, after any sequence of Add, Remove and Clear calls
\* (an added value may have a stored key and another payload), Size() is the
\* number of nodes reachable from the root, and the root is absent exactly
\* when Size() is 0.
C5_AVLSizeIsNodeCount ==
  kind = "AVL" =>
    /\ count = size(heap, root)
    /\ root = NIL <=> count = 0

\* C6: in a BinarySearchTree or a TwoThreeTree, after any sequence of Add,
\* Remove and Clear calls, the root is absent exactly when the count is 0,
\* Size() is the number of values reachable from the root, and Clear leaves
\* no root and count 0.
C6_CountIsValueCount ==
  kind \in {"BST", "T23"} =>
    /\ root = NIL <=> count = 0
    /\ count = Len(Inorder(kind, tree))
    /\ DoClear(tree).root = NIL /\ DoClear(tree).count = 0
    /\ op = "Clear" => root = NIL /\ count = 0

\* A Remove has taken the last value out of a 2-3 tree: the count is 0 and
\* the root is absent.
C6_Witness == kind = "T23" /\ op = "Remove" /\ count = 0 /\ root = NIL

\* C7: for each tree type, Add of a value whose key is stored with another
\* payload leaves Size() unchanged, and a following Get for the key returns
\* the payload just added.
C7_ReplaceKeepsSize ==
  \A k \in Keys, p \in Payloads :
    (stored[k] # 0 /\ stored[k] # p) =>
      LET after == DoAdd(kind, tree, KeyValue(k, p))
      IN  /\ after.count = count
          /\ DoGet(kind, after, Probe(k)) = Found(KeyValue(k, p))

\* C8: for each tree type, after any sequence of Add and Remove calls, Get
\* returns (the stored value of that key, true) exactly for the keys added
\* and not removed since and (nil, false) for every other key, the empty
\* tree included; Contains returns the same boolean.
C8_GetReturnsStored ==
  \A k \in Probes :
    /\ DoGet(kind, tree, Probe(k))
         = IF IsStored(k) THEN Found(KeyValue(k, stored[k])) ELSE NotFound
    /\ DoContains(kind, tree, Probe(k)) = DoGet(kind, tree, Probe(k)).found

\* A stored value of a 2-3 tree of three or more values has been replaced,
\* and some key of the universe is not stored.
C8_Witness ==
  /\ kind = "T23" /\ op = "Replace" /\ count >= 3
  /\ \E k \in Keys : stored[k] = 0

\* C9: for each tree type, Remove of a value whose key is stored makes Get
\* for it report found = false, lowers Size() by exactly 1, and leaves every
\* other stored value retrievable by Get with its payload.
C9_RemoveStored ==
  \A k \in Keys :
    stored[k] # 0 =>
      LET after == DoRemove(kind, tree, Probe(k))
      IN  /\ DoGet(kind, after, Probe(k)) = NotFound
          /\ after.count = count - 1
          /\ \A j \in Keys \ {k} :
                DoGet(kind, after, Probe(j))
                  = IF stored[j] # 0 THEN Found(KeyValue(j, stored[j])) ELSE NotFound

\* A stored value has been removed from an AVL tree that still holds two or
\* more.
C9_Witness == kind = "AVL" /\ op = "Remove" /\ Len(heap) >= 2

\* C10: for each tree type, Remove of a value whose key is not stored (the
\* empty tree included) leaves Size(), the shape of the tree and every
\* stored value as they were: no field of the tree or of a node changes.
C10_RemoveMissing ==
  \A k \in Probes : ~IsStored(k) => DoRemove(kind, tree, Probe(k)) = tree

\* A Remove of a key that is not stored has been made on a binary search
\* tree of three or more values.
C10_Witness == kind = "BST" /\ op = "RemoveMiss" /\ count >= 3

\* The values the internal iterator of an order visits.
Visited(order, h, r) ==
  CASE order = "pre" -> VisitPreorder(h, r)
    [] order = "in" -> VisitInorder(h, r)
    [] order = "post" -> VisitPostorder(h, r)
    [] order = "t23" -> T23Visit(h, r)

\* The values a new external iterator of an order returns, call after call,
\* until Next returns false; one call more than the heap has values would be
\* seen.
Iterated(order, h, r) == Drain(NewIterator(order, h, r), 2 * Len(h) + 1)

\* C11: over every binary tree, made by buildBinaryTree (values may repeat)
\* or by the calls of a BinarySearchTree or an AVLTree, the preorder, inorder
\* and postorder external iterators return, call after call, the values that
\* VisitPreorder, VisitInorder and VisitPostorder visit, in the same order.
C11_BinaryIteratorsAgree ==
  kind # "T23" =>
    \A order \in {"pre", "in", "post"} :
      Iterated(order, heap, root) = Visited(order, heap, root)

\* A built tree of MaxBuilt nodes with a repeated value and a root with two
\* children, whose new postorder iterator has returned every value.
C11_Witness ==
  /\ kind = "BT" /\ count = MaxBuilt
  /\ heap[root].left # NIL /\ heap[root].right # NIL
  /\ Cardinality(Range(VisitInorder(heap, root))) < count
  /\ iter.fresh /\ iter.it.order = "post" /\ iter.yielded = count
  /\ iter.last.called /\ ~iter.last.found

\* C12: over every TwoThreeTree the external iterator of NewIterator returns,
\* call after call, the values that Visit visits, in the same order.
C12_T23IteratorAgrees ==
  kind = "T23" => Iterated("t23", heap, root) = Visited("t23", heap, root)

\* A 2-3 tree of height 2 with a 3-node that is not a leaf, whose new
\* iterator has returned every value.
C12_Witness ==
  /\ kind = "T23" /\ root # NIL /\ T23Height(heap, root) = 2
  /\ \E n \in Nodes : heap[n].nodeType = 3 /\ ~isLeaf(heap, n)
  /\ iter.fresh /\ iter.it.order = "t23" /\ iter.yielded = count
  /\ iter.last.called /\ ~iter.last.found

\* What holds of an iterator between its calls: Done() is true exactly when
\* the next Next() would return false; a fresh iterator that is done has
\* returned true once per value of the tree, and one that is not done has
\* returned true fewer times; after a Next() that returned false the value
\* returned was nil and Done() is true.
IteratorState ==
  iter # NoIter =>
    /\ IterDone(iter.it) <=> ~IterNext(iter.it).found
    /\ iter.fresh =>
         IF IterDone(iter.it)
         THEN iter.yielded = Len(Inorder(kind, tree))
         ELSE iter.yielded < Len(Inorder(kind, tree))
    /\ (iter.last.called /\ ~iter.last.found) =>
         iter.last.value = NilValue /\ IterDone(iter.it)

\* A call of Next() on an iterator whose last Next() returned false returns
\* (nil, false) again and leaves Done() true.
IteratorStep ==
  (iter.last.called /\ ~iter.last.found /\ iter'.last.called) =>
    /\ iter'.last.again /\ ~iter'.last.found /\ iter'.last.value = NilValue
    /\ IterDone(iter'.it)

\* C13: for every external iterator (binary preorder, inorder, postorder,
\* 2-3 inorder) over a tree that is not modified: Done() is true exactly when
\* the next Next() would return (nil, false); a fresh iterator returns true
\* exactly once per value of the tree; once Next() has returned (nil, false)
\* every further Next() returns (nil, false) and Done() stays true.
C13_IteratorProtocol == [] IteratorState /\ [][IteratorStep]_vars

\* A fresh postorder iterator over a tree of at least three values that has
\* returned every value, then false, then false again.
C13_Witness ==
  /\ iter.fresh /\ iter.it.order = "post" /\ count >= 3 /\ iter.yielded = count
  /\ iter.last.called /\ iter.last.again /\ ~iter.last.found

\* The tree with the heap that a call left (the call did not assign to the
\* tree's fields).
After(c) == [h |-> c.h, root |-> root, count |-> count]

\* C14: LeftSubtree, RightSubtree and RootValue on an empty tree return an
\* error (and the empty tree, or nil), and the tree is as it was: no root,
\* the same count, and an Add after the call stores its value as on a new
\* tree.
C14_EmptyTreeErrors ==
  (kind # "T23" /\ root = NIL) =>
    /\ LeftSubtree(tree).err /\ RightSubtree(tree).err /\ RootValue(tree).err
    /\ RootValue(tree).value = NilValue
    /\ LeftSubtree(tree).root = NIL /\ LeftSubtree(tree).count = 0
    /\ RightSubtree(tree).root = NIL /\ RightSubtree(tree).count = 0
    /\ After(LeftSubtree(tree)) = tree /\ After(RightSubtree(tree)) = tree
    /\ \A k \in Keys :
         LET t == DoAdd(kind, After(RightSubtree(After(LeftSubtree(tree)))),
                        KeyValue(k, 1))
         IN  /\ VisitInorder(t.h, t.root) = <<KeyValue(k, 1)>>
             /\ t.count = 1
             /\ ~RootValue(t).err /\ RootValue(t).value = KeyValue(k, 1)

\* An AVLTree that a Remove has just emptied.
C14_Witness == kind = "AVL" /\ op = "Remove" /\ root = NIL /\ heap = <<>>

\* The shape and values of the binary tree at node.
RECURSIVE Shape(_, _)
Shape(h, node) ==
  IF node = NIL THEN <<>>
  ELSE <<h[node].value, Shape(h, h[node].left), Shape(h, h[node].right)>>

\* The nodes of the binary tree at node.
RECURSIVE nodesFrom(_, _)
nodesFrom(h, node) ==
  IF node = NIL THEN {}
  ELSE {node} \cup nodesFrom(h, h[node].left) \cup nodesFrom(h, h[node].right)

\* The source tree after a later call on it, the extracted tree e being in
\* the same heap.
Later(e) ==
  {DoAdd(kind, After(e), KeyValue(k, p)) : k \in Keys, p \in Payloads}
  \cup {DoRemove(kind, After(e), Probe(k)) : k \in Probes}
  \cup {DoClear(After(e))}

\* The tree e, extracted from the subtree at child, is a copy of it that
\* shares no node with the source, and no later call on either tree changes
\* the other.
Independent(child, e) ==
  /\ ~e.err
  /\ Shape(e.h, e.root) = Shape(heap, child)
  /\ e.count = Cardinality(nodesFrom(e.h, e.root))
  /\ nodesFrom(e.h, e.root) \cap nodesFrom(e.h, root) = {}
  /\ Shape(e.h, root) = Shape(heap, root)
  /\ \A t \in Later(e) : Shape(t.h, e.root) = Shape(e.h, e.root)
  /\ Shape(DoClear(e).h, root) = Shape(heap, root)

\* C15: on a non-empty tree LeftSubtree and RightSubtree return a tree of the
\* shape and values of the root's left (right) subtree, with Size() its
\* number of nodes, sharing no node with the source: no Add, Remove or Clear
\* on the source changes the extracted tree, and Clear on the extracted tree
\* leaves the source as it was.
C15_SubtreeIsCopy ==
  (kind # "T23" /\ root # NIL) =>
    /\ Independent(heap[root].left, LeftSubtree(tree))
    /\ Independent(heap[root].right, RightSubtree(tree))

\* An AVLTree whose root has subtrees of two nodes on both sides, so that
\* both copies have inner pointers and later calls on the source rotate.
C15_Witness ==
  /\ kind = "AVL" /\ root # NIL
  /\ Cardinality(nodesFrom(heap, heap[root].left)) = 2
  /\ Cardinality(nodesFrom(heap, heap[root].right)) = 2
  /\ LeftSubtree(tree).count = 2 /\ RightSubtree(tree).count = 2

\* The first n calls of the test have been made on a tree of the test's
\* type; s is the script of the test.
Played(test, s, n) ==
  kind = test /\ script = Script(test, SubSeq(s, n + 1, Len(s)))

\* The keys of a sequence of values.
KeysOf(values) == [i \in 1..Len(values) |-> values[i].key]

\* C16: after the fourteen Adds of Scenario A (keys 20, 10, 5, 8, 7, 3, 15,
\* 30, 25, 30, 27, 15, 18, 26; 30 and 15 twice with the same payload) on a new
\* AVLTree, Size() is 12, Height() is 4, the root key is 10 and the inorder
\* keys are 3, 5, 7, 8, 10, 15, 18, 20, 25, 26, 27, 30.
C16_ScenarioA ==
  (Played("AVL", AVLScript, Len(ScenarioA))) =>
    /\ count = 12
    /\ AVLHeight(heap, root) = 4
    /\ ~RootValue(tree).err /\ RootValue(tree).value.key = 10
    /\ KeysOf(VisitInorder(heap, root)) = <<3, 5, 7, 8, 10, 15, 18, 20, 25, 26, 27, 30>>

\* The AVLTree after the last Add of Scenario A.
C16_Witness ==
  /\ Played("AVL", AVLScript, Len(ScenarioA)) /\ op = "Add"
  /\ stored[26] = 1 /\ root # NIL

\* C17: after the twelve Adds of Scenario B (keys 30, 40, 25, 25, 50, 20,
\* 22, 27, 24, 35, 10, 45) on a new TwoThreeTree, Size() is 11, Height() is
\* 2, Visit lists 10 20 22 24 25 27 30 35 40 45 50, VisitPreorder lists
\* 25 22 10 20 24 30 40 27 35 45 50 and VisitPostorder lists
\* 10 20 24 22 27 35 45 50 30 40 25.
C17_ScenarioB ==
  (Played("T23", T23Script, Len(ScenarioB))) =>
    /\ count = 11
    /\ T23Height(heap, root) = 2
    /\ KeysOf(T23Visit(heap, root)) = <<10, 20, 22, 24, 25, 27, 30, 35, 40, 45, 50>>
    /\ KeysOf(T23VisitPreorder(heap, root))
         = <<25, 22, 10, 20, 24, 30, 40, 27, 35, 45, 50>>
    /\ KeysOf(T23VisitPostorder(heap, root))
         = <<10, 20, 24, 22, 27, 35, 45, 50, 30, 40, 25>>

\* The TwoThreeTree after the last Add of Scenario B.
C17_Witness ==
  /\ Played("T23", T23Script, Len(ScenarioB)) /\ op = "Add"
  /\ stored[45] = 1 /\ root # NIL

\* What shapeTest compares: the keys listed by Visit and by VisitPreorder,
\* Height() and Size().
Shape23(in, pre, h, n) == [in |-> in, pre |-> pre, height |-> h, size |-> n]

\* The shape of the TwoThreeTree.
ShapeNow ==
  Shape23(KeysOf(T23Visit(heap, root)), KeysOf(T23VisitPreorder(heap, root)),
          T23Height(heap, root), count)

\* The shapes TestDelete expects after each Remove of Scenario C.
ScenarioCShapes ==
  << Shape23(<<10, 20, 22, 24, 25, 27, 30, 35, 40, 50>>,
             <<25, 22, 10, 20, 24, 30, 40, 27, 35, 50>>, 2, 10),
     Shape23(<<10, 20, 22, 24, 25, 27, 30, 35, 40>>,
             <<25, 22, 10, 20, 24, 30, 27, 35, 40>>, 2, 9),
     Shape23(<<10, 20, 22, 24, 25, 27, 30, 35, 40>>,
             <<25, 22, 10, 20, 24, 30, 27, 35, 40>>, 2, 9),
     Shape23(<<10, 20, 22, 24, 25, 27, 30, 35>>,
             <<25, 22, 10, 20, 24, 30, 27, 35>>, 2, 8),
     Shape23(<<10, 20, 22, 24, 25, 27, 30>>,
             <<22, 25, 10, 20, 24, 27, 30>>, 1, 7),
     Shape23(<<10, 20, 22, 25, 27, 30>>,
             <<20, 25, 10, 22, 27, 30>>, 1, 6),
     Shape23(<<10, 20, 25, 27, 30>>,
             <<20, 27, 10, 25, 30>>, 1, 5),
     Shape23(<<10, 20, 27, 30>>,
             <<20, 10, 27, 30>>, 1, 4),
     Shape23(<<20, 27, 30>>,
             <<27, 20, 30>>, 1, 3),
     Shape23(<<27, 30>>,
             <<27, 30>>, 0, 2),
     Shape23(<<30>>,
             <<30>>, 0, 1),
     Shape23(<<>>,
             <<>>, 0, 0),
     Shape23(<<>>,
             <<>>, 0, 0) >>

\* After each Remove of Scenario C the tree has the shape TestDelete expects.
ScenarioCShape ==
  \A i \in 1..Len(ScenarioC) :
    (Played("T23", T23Script, Len(ScenarioB) + i)) =>
      ShapeNow = ScenarioCShapes[i]

\* A Remove of a key that is not stored leaves the tree as it is.
RepeatedRemove ==
  (kind = "T23" /\ script.calls # <<>> /\ Head(script.calls).op = "Remove"
   /\ stored[Head(script.calls).key] = 0 /\ script'.calls = Tail(script.calls))
  => UNCHANGED <<heap, root, count>>

\* C18: removing 45, 50, 40, 35, 24, 22, 25, 10, 20, 27, 30 from the tree of
\* Scenario B gives the sizes 10, 9, ..., 0, the heights 2, 2, 2, 1, 1, 1, 1,
\* 1, 0, 0, 0 and the inorder and preorder listings of TestDelete; the
\* repeated Removes of 50 and of 30 change nothing.
C18_ScenarioC == [] ScenarioCShape /\ [][RepeatedRemove]_vars

\* The TwoThreeTree after the last Remove of Scenario C, the second of 30.
C18_Witness ==
  /\ Played("T23", T23Script, Len(ScenarioB) + Len(ScenarioC))
  /\ op = "RemoveMiss" /\ root = NIL /\ count = 0

\* C19: removing 30, 8, 20, 3, 5, 15, 25, 10 from the AVLTree of Scenario A
\* gives Size() 4, Height() 2, the root value (26, twenty-six) and the
\* inorder keys 7, 18, 26, 27; adding 10, 25, 27, 3 to an empty AVLTree and
\* removing 10, 3, 27, 25 gives an empty tree of Height() 0.
C19_ScenarioARemovals ==
  /\ (Played("AVL", AVLScript, Len(ScenarioA) + Len(ScenarioARemoved))) =>
       /\ count = 4
       /\ AVLHeight(heap, root) = 2
       /\ ~RootValue(tree).err /\ RootValue(tree).value = KeyValue(26, 1)
       /\ KeysOf(VisitInorder(heap, root)) = <<7, 18, 26, 27>>
  /\ (Played("AVL", AVLScript, Len(AVLScript))) =>
       /\ root = NIL /\ count = 0
       /\ AVLHeight(heap, root) = 0

\* The AVLTree at the end of TestNonEmptyAVLTree, emptied by the Remove of
\* 25, the removals of Scenario A done before.
C19_Witness ==
  /\ Played("AVL", AVLScript, Len(AVLScript)) /\ op = "Remove"
  /\ root = NIL

\* Height() of the tree's type.
Height(k, h, r) ==
  CASE k = "BST" -> BinaryTreeHeight(h, r)
    [] k = "AVL" -> AVLHeight(h, r)
    [] k = "T23" -> T23Height(h, r)

\* The number of edges on the longest path from the root to a leaf, 0 for
\* the empty tree.
LongestPath(k, h, r) ==
  IF r = NIL THEN 0
  ELSE IF k = "T23"
  THEN CHOOSE d \in leafDepths(h, r, 0) : \A e \in leafDepths(h, r, 0) : e <= d
  ELSE trueHeight(h, r)

\* C20: after any sequence of Add and Remove calls Height() is the number of
\* edges on the longest path from the root to a leaf, and 0 for the empty
\* tree and for a tree of one node: for the recursive getHeight of
\* BinaryTree (also on the nodes of an AVLTree), for the root height an
\* AVLTree stores, and for the leftmost path a TwoThreeTree counts.
C20_HeightIsLongestPath ==
  /\ Height(kind, heap, root) = LongestPath(kind, heap, root)
  /\ kind # "T23" => BinaryTreeHeight(heap, root) = LongestPath(kind, heap, root)
  /\ Len(heap) <= 1 => Height(kind, heap, root) = 0

\* An AVLTree of height 2 left by a Remove, and so by rotations or height
\* updates on the way back to the root.
C20_Witness ==
  /\ kind = "AVL" /\ op = "Remove" /\ root # NIL
  /\ Height(kind, heap, root) = 2 /\ LongestPath(kind, heap, root) = 2

\* Two results (value, ok) of Get are the same: the flags agree and, where
\* they are true, the values do.
SameResult(r, s) == r.found = s.found /\ (r.found => r.value = s.value)

\* C21: a TreeMap and a HashMap that received the same Insert, Delete and
\* Clear calls agree on Size(), on HasKey(k) and on Get(k) for every key, and
\* an Insert for a present key replaces its value and leaves Size() unchanged.
\* AVLTree.Add counts every Insert into a non-empty tree, because the new
\* *cKeyValue is == to no stored one: the TreeMap's Size() runs ahead.
C21_MapsAgree ==
  kind = "Map" =>
    /\ TreeMapSize(tree) = HashMapSize(cont)
    /\ \A k \in Probes :
         /\ TreeMapHasKey(tree, k) = HashMapHasKey(cont, k)
         /\ SameResult(TreeMapGet(tree, k), HashMapGet(cont, k))
    /\ op = "Replace" => TreeMapSize(tree) = Cardinality({k \in Keys : stored[k] # 0})

\* C21, what the two maps do agree on: HasKey and Get of both are those of
\* the map that was stored, and the HashMap's Size() is its number of keys.
C21_MapsAgreeOnContents ==
  kind = "Map" =>
    /\ HashMapSize(cont) = Cardinality({k \in Keys : stored[k] # 0})
    /\ \A k \in Probes :
         /\ TreeMapHasKey(tree, k) = HashMapHasKey(cont, k)
         /\ SameResult(TreeMapGet(tree, k), HashMapGet(cont, k))
         /\ SameResult(HashMapGet(cont, k),
                       IF k \in Keys /\ stored[k] # 0 THEN Found(stored[k]) ELSE NotFound)

\* C21: a present key was given a new value and the sizes differ.
C21_Diverged ==
  kind = "Map" /\ op = "Replace" /\ TreeMapSize(tree) # HashMapSize(cont)
\* What Get(k) should return for the stored map.
StoredGet(k) ==
  IF k \in DOMAIN stored /\ stored[k] # 0
  THEN [value |-> stored[k], found |-> TRUE]
  ELSE [value |-> NilValue, found |-> FALSE]

\* The hash table holds the stored map: Size() is the number of distinct keys
\* and Get(k) is (v, true) for the value last inserted under k, (nil, false)
\* for any other key.
HashTableIsMap ==
  kind = "HashTable" =>
    /\ HashTableSize(cont) = Cardinality({k \in HashKeySet : stored[k] # 0})
    /\ \A k \in 0..(HashKeys + 1) :
         SameResult(HashTableGet(cont, k), StoredGet(k))

\* An Insert of a present key leaves Size() unchanged; a Delete of an absent
\* key leaves the chains and the count as they were.
HashTableStep ==
  kind = "HashTable" =>
    /\ op' = "Replace" => HashTableSize(cont') = HashTableSize(cont)
    /\ op' = "RemoveMiss" => cont' = sized(cont)

\* C24: with keys that collide, HashTable is a finite map: Size() is the
\* number of distinct keys inserted and not deleted since, Get(k) returns the
\* value last inserted under k with true and (nil, false) for an absent key,
\* Insert of a present key replaces the value without changing Size(), and
\* Delete of an absent key changes nothing.
C24_HashTableIsMap == [] HashTableIsMap /\ [][HashTableStep]_vars

\* C24: a value was replaced in a chain of three colliding keys, behind the
\* head of the chain.
C24_Witness ==
  /\ kind = "HashTable"
  /\ op = "Replace"
  /\ \E i \in DOMAIN cont.table :
       /\ Len(cont.table[i]) = 3
       /\ \E j \in 2..3 : cont.table[i][j].value = 2 /\ stored[cont.table[i][j].key] = 2
\* The queue in cont answers as the queue of the stored elements: Size() is
\* their number (entered minus removed); on an empty queue Front and Leave
\* return (nil, error) and change nothing; otherwise both return the oldest
\* element, Front changing nothing and Leave taking one element out.
QueueIsFIFO ==
  /\ cont.count = Len(stored)
  /\ IF stored = <<>>
     THEN /\ QueueFront(cont) = [q |-> cont, r |-> Returns(NilValue, TRUE)]
          /\ QueueLeave(cont) = [q |-> cont, r |-> Returns(NilValue, TRUE)]
     ELSE /\ QueueFront(cont) = [q |-> cont, r |-> Returns(Head(stored), FALSE)]
          /\ QueueLeave(cont).r = Returns(Head(stored), FALSE)
          /\ QueueLeave(cont).q.count = cont.count - 1

\* C22: ArrayQueue and LinkedQueue are first-in first-out: Front and Leave
\* return the element that entered earliest among those not yet removed,
\* (nil, error) on an empty queue without changing it, and Size() is the
\* number entered minus the number removed.  ArrayQueue.Leave advances
\* frontIndex without wrapping it, so store[frontIndex] runs off the slice.
C22_QueuesAreFIFO == kind \in QueueKinds => QueueIsFIFO

\* C22 for the LinkedQueue alone.
C22_LinkedQueueIsFIFO == kind = "LinkedQueue" => QueueIsFIFO

\* C22: a call on an ArrayQueue holding an element panicked.
C22_Panicked == kind = "ArrayQueue" /\ op.r.panic /\ stored # <<>>
\* The elements a randomizer holds: the occupied part of the store, or the
\* list.
Inside(r) == IF kind = "ArrayRandomizer" THEN SubSeq(r.store, 1, r.count) ELSE r.list

\* How many times e occurs in the sequence s.
Occurs(s, e) == Cardinality({i \in 1..Len(s) : s[i] = e})

\* The sequence s holds each element as many times as b counts it.
Holds(s, b) == \A e \in Elements : Occurs(s, e) = b[e]

RECURSIVE Sum(_, _)
Sum(b, S) == IF S = {} THEN 0 ELSE LET e == CHOOSE x \in S : TRUE
                                   IN  b[e] + Sum(b, S \ {e})

\* C23: whichever index is drawn, a successful Leave of an ArrayRandomizer or
\* LinkedRandomizer returns an element that entered and has not been returned
\* since and takes exactly that one out, so each element entered is returned
\* by exactly one Leave before the randomizer is empty; Size() is the number
\* entered minus the number that left; Leave on an empty randomizer returns
\* (nil, error).
C23_RandomizerReleasesEachOnce ==
  kind \in RandomizerKinds =>
    /\ cont.count = Sum(stored, Elements)
    /\ Holds(Inside(cont), stored)
    /\ \A index \in Intn(cont.count) :
         LET l == RandomizerLeave(cont, index)
         IN  IF cont.count = 0 THEN l = [q |-> cont, r |-> Returns(NilValue, TRUE)]
             ELSE /\ ~l.r.err /\ ~l.r.panic
                  /\ l.r.value \in Elements
                  /\ stored[l.r.value] > 0
                  /\ l.q.count = cont.count - 1
                  /\ Holds(Inside(l.q), [stored EXCEPT ![l.r.value] = @ - 1])

\* C23: a Leave took an element from inside an ArrayRandomizer holding two
\* different elements, not from its end.
C23_Witness ==
  /\ kind = "ArrayRandomizer"
  /\ op.name = "Leave" /\ ~op.r.err
  /\ cont.count >= 2
  /\ \A e \in Elements : stored[e] > 0
  /\ Len(cont.store) > cont.count
  /\ cont.store[cont.count + 1] # op.r.value
\* The items of the nodes from p on, following succ (LinkedList) or next.
RECURSIVE itemsFrom(_, _)
itemsFrom(h, p) ==
  IF p = NIL THEN <<>>
  ELSE <<h[p].item>> \o itemsFrom(h, IF "succ" \in DOMAIN h[p] THEN h[p].succ ELSE h[p].next)

\* The elements a list holds, read off its store or its nodes.
Contents(l) ==
  IF "h" \in DOMAIN l THEN itemsFrom(l.h, l.head) ELSE SubSeq(l.store, 1, l.count)

\* The call returned r and left the list holding the sequence s.
Gives(call, r, s) == call.r = r /\ Contents(call.q) = s /\ call.q.count = Len(s)

\* C25: ArrayList, LinkedList and SinglyLinkedList each hold the same finite
\* sequence after the same calls: Insert(i, e) puts e at i, Delete(i) takes
\* out and returns the element at i, Get(i) returns it, Put(i, e) replaces
\* it, Clear empties the list; a call with an index out of range returns an
\* error and leaves the contents and Size() unchanged.
C25_ListsAreSequences ==
  kind \in ListKinds =>
    /\ cont.count = Len(stored)
    /\ Contents(cont) = stored
    /\ Gives([q |-> ListClear(cont), r |-> Returns(NilValue, FALSE)],
             Returns(NilValue, FALSE), <<>>)
    /\ \A i \in Indices :
         /\ IF 0 <= i /\ i < Len(stored)
            THEN /\ Gives(ListGet(cont, i), Returns(stored[i + 1], FALSE), stored)
                 /\ Gives(ListDelete(cont, i), Returns(stored[i + 1], FALSE),
                          SeqDelete(stored, i))
                 /\ \A e \in ListValueSet :
                      Gives(ListPut(cont, i, e), Returns(NilValue, FALSE),
                            SeqPut(stored, i, e))
            ELSE /\ ListGet(cont, i) = Refused(cont)
                 /\ ListDelete(cont, i) = Refused(cont)
                 /\ \A e \in ListValueSet : ListPut(cont, i, e) = Refused(cont)
         /\ \A e \in ListValueSet :
              IF 0 <= i /\ i <= Len(stored)
              THEN Gives(ListInsert(cont, i, e), Returns(NilValue, FALSE),
                         SeqInsert(stored, i, e))
              ELSE ListInsert(cont, i, e) = Refused(cont)

\* C25: an element was deleted from the middle of a SinglyLinkedList whose
\* cursor had been further back, and two different elements remain.
C25_Witness ==
  /\ kind = "SinglyLinkedList"
  /\ op.name = "Delete" /\ ~op.r.err
  /\ Len(stored) = 3
  /\ stored[1] # stored[3]
  /\ cont.cursorPtr # NIL /\ cont.cursorIdx = 1

\* C25: a call with an index out of range was refused by a LinkedList that
\* holds elements.
C25_RefusedWitness ==
  /\ kind = "LinkedList"
  /\ op.name = "Put" /\ op.r.err
  /\ Len(stored) = MaxList
\* The height a node's link stores: that of the node it points to, -1 for nil.
storedHeight(h, p) == IF p = NIL THEN -1 ELSE h[p].height

\* C26: after any sequence of Add and Remove calls on an AVLTree, the height
\* stored in every reachable node is one more than the larger of the heights
\* stored in its children (a missing child counting as -1), and so it is the
\* true height of the node's subtree.
C26_AVLStoredHeights ==
  kind = "AVL" =>
    \A n \in Nodes :
      /\ heap[n].height =
           1 + Max(storedHeight(heap, heap[n].left), storedHeight(heap, heap[n].right))
      /\ heap[n].height = trueHeight(heap, n)

\* C26: a Remove has left an AVL tree of height 2 whose root has a left
\* child stored with height 1 and a right child stored with height 0.
C26_Witness ==
  /\ kind = "AVL" /\ op = "Remove" /\ root # NIL
  /\ heap[root].height = 2
  /\ storedHeight(heap, heap[root].left) = 1
  /\ storedHeight(heap, heap[root].right) = 0
\* A call node.rebalance() on heap h.
Rebalance(h, node) == [h |-> h, node |-> node]

\* The calls of rebalance that btNode.add makes below and at node, each with
\* the heap it finds.
RECURSIVE addRebalances(_, _, _)
addRebalances(h, node, v) ==
  IF Equal(v, h[node].value) THEN {}
  ELSE IF Less(v, h[node].value)
  THEN IF h[node].left = NIL THEN {}
       ELSE addRebalances(h, h[node].left, v)
              \cup {Rebalance(avlAdd(h, h[node].left, v), node)}
  ELSE IF h[node].right = NIL THEN {}
       ELSE addRebalances(h, h[node].right, v)
              \cup {Rebalance(avlAdd(h, h[node].right, v), node)}

\* The calls of rebalance that btNode.removeSuccessor makes.
RECURSIVE successorRebalances(_, _)
successorRebalances(h, node) ==
  IF h[node].left = NIL THEN {}
  ELSE LET r == removeSuccessor(h, h[node].left)
       IN  successorRebalances(h, h[node].left)
             \cup {Rebalance([r.h EXCEPT ![node].left = r.p], node)}

\* The calls of rebalance that btNode.remove makes.
RECURSIVE removeRebalances(_, _, _)
removeRebalances(h, node, v) ==
  IF Equal(v, h[node].value)
  THEN IF h[node].left = NIL \/ h[node].right = NIL THEN {}
       ELSE LET r == removeSuccessor(h, h[node].right)
            IN  successorRebalances(h, h[node].right)
                  \cup {Rebalance([r.h EXCEPT ![node].value = r.value,
                                              ![node].right = r.p], node)}
  ELSE IF Less(v, h[node].value)
  THEN IF h[node].left = NIL THEN {}
       ELSE LET r == avlRemove(h, h[node].left, v)
            IN  removeRebalances(h, h[node].left, v)
                  \cup {Rebalance([r.h EXCEPT ![node].left = r.p], node)}
  ELSE IF h[node].right = NIL THEN {}
       ELSE LET r == avlRemove(h, h[node].right, v)
            IN  removeRebalances(h, h[node].right, v)
                  \cup {Rebalance([r.h EXCEPT ![node].right = r.p], node)}

\* The calls of rebalance made by the Add and Remove calls that can be made
\* on the tree as it is.
RebalancesNow ==
  IF root = NIL THEN {}
  ELSE UNION {addRebalances(heap, root, KeyValue(k, p)) : k \in Keys, p \in Payloads}
       \cup UNION {IF BSTContains(tree, Probe(k))
                   THEN removeRebalances(heap, root, Probe(k)) ELSE {} : k \in Keys}

\* The rotation the switch of btNode.rebalance selects.
rotationChosen(h, node) ==
  CASE balance(h, node) = 2 ->
         IF balance(h, h[node].left) = -1 THEN "LR" ELSE "R"
    [] balance(h, node) = -2 ->
         IF balance(h, h[node].right) = 1 THEN "RL" ELSE "L"
    [] OTHER -> "none"

\* The rotation of the rule: +2 with a left child's factor >= 0 a single right
\* rotation, +2 with a left child's factor < 0 a left-right rotation, -2 with
\* a right child's factor <= 0 a single left rotation, -2 with a right
\* child's factor > 0 a right-left rotation.
rotationSpecified(h, node) ==
  CASE balance(h, node) = 2 /\ balance(h, h[node].left) >= 0 -> "R"
    [] balance(h, node) = 2 /\ balance(h, h[node].left) < 0 -> "LR"
    [] balance(h, node) = -2 /\ balance(h, h[node].right) <= 0 -> "L"
    [] balance(h, node) = -2 /\ balance(h, h[node].right) > 0 -> "RL"
    [] OTHER -> "none"

\* C27: whenever rebalance runs during an Add or Remove of an AVLTree the
\* node's balance factor lies in -2..2; when it is +2 the left child's factor
\* lies in -1..1, when it is -2 the right child's; so the tests of the code
\* (== -1, == 1) select the rotation of the rule.
C27_RebalanceFactors ==
  kind = "AVL" =>
    \A c \in RebalancesNow :
      /\ balance(c.h, c.node) \in -2..2
      /\ balance(c.h, c.node) = 2 =>
           c.h[c.node].left # NIL /\ balance(c.h, c.h[c.node].left) \in -1..1
      /\ balance(c.h, c.node) = -2 =>
           c.h[c.node].right # NIL /\ balance(c.h, c.h[c.node].right) \in -1..1
      /\ rotationChosen(c.h, c.node) = rotationSpecified(c.h, c.node)

\* C27: an AVL tree on which a Remove calls
\* rebalance at a node of factor +2 whose left child has factor 0, and an Add
\* calls it at a node of factor +2 whose left child has factor -1.
C27_Witness ==
  /\ kind = "AVL" /\ root # NIL
  /\ \E c \in RebalancesNow :
       balance(c.h, c.node) = 2 /\ balance(c.h, c.h[c.node].left) = 0
  /\ \E c \in RebalancesNow :
       balance(c.h, c.node) = 2 /\ balance(c.h, c.h[c.node].left) = -1
\* The nodes of the subtree of h at node.
under(h, node) == Range(reachable("AVL", TRUE, h, <<node>>, <<>>))

\* The rotations a node of h has the children for, each with the heap it
\* leaves.
Rotations(h, node) ==
  (IF h[node].right # NIL THEN {rotateL(h, node)} ELSE {})
  \cup (IF h[node].left # NIL THEN {rotateR(h, node)} ELSE {})
  \cup (IF h[node].left # NIL /\ h[h[node].left].right # NIL
        THEN {rotateLR(h, node)} ELSE {})
  \cup (IF h[node].right # NIL /\ h[h[node].right].left # NIL
        THEN {rotateRL(h, node)} ELSE {})

\* The rotation rebalance makes at a call, as the heap it leaves.
Rotated(c) ==
  CASE rotationChosen(c.h, c.node) = "L" -> rotateL(c.h, c.node)
    [] rotationChosen(c.h, c.node) = "R" -> rotateR(c.h, c.node)
    [] rotationChosen(c.h, c.node) = "LR" -> rotateLR(c.h, c.node)
    [] rotationChosen(c.h, c.node) = "RL" -> rotateRL(c.h, c.node)
    [] OTHER -> c.h

\* The subtree at node holds the same inorder sequence in after as in h, at
\* the same node, and no node outside it has changed.
SameSubtree(h, node, after) ==
  /\ visitInorder(after, node) = visitInorder(h, node)
  /\ \A n \in DOMAIN h \ under(h, node) : after[n] = h[n]

\* C28: each of the four rotations, applied to a node that has the children
\* it moves, leaves the inorder sequence of the subtree unchanged with the
\* same node as its root, and changes no node outside the subtree; so do the
\* rotations rebalance makes during an Add or a Remove.
C28_RotationsKeepInorder ==
  kind = "AVL" =>
    /\ \A n \in Nodes : \A after \in Rotations(heap, n) : SameSubtree(heap, n, after)
    /\ \A c \in RebalancesNow : SameSubtree(c.h, c.node, Rotated(c))

\* C28: an AVL tree on which the Adds and Removes that can be made call for
\* each of the four rotations, below the root too.
C28_Witness ==
  /\ kind = "AVL" /\ root # NIL
  /\ {"L", "R", "LR", "RL"} \subseteq {rotationChosen(c.h, c.node) : c \in RebalancesNow}
  /\ \E c \in RebalancesNow : c.node # root /\ Rotated(c) # c.h
\* The places of a tree that hold a link: the root field and the left and
\* right fields of its nodes.
Slots(t) == {<<NIL, "root">>} \cup ((DOMAIN t.h) \X {"left", "right"})

\* The link held at a place.
Slot(t, s) ==
  IF s[1] = NIL THEN t.root
  ELSE IF s[2] = "left" THEN t.h[s[1]].left ELSE t.h[s[1]].right

\* The leftmost node of the subtree at p.
RECURSIVE leftmost(_, _)
leftmost(h, p) == IF h[p].left = NIL THEN p ELSE leftmost(h, h[p].left)

\* The value that follows v in the sequence s.
Following(s, v) == s[1 + CHOOSE i \in 1..Len(s) : s[i] = v]

\* Remove(k) on the tree as it is: n is the node that holds k, gone the node
\* that leaves the tree and put the link that takes its place.
RemoveUnlinks(n, gone, put, r) ==
  /\ DOMAIN r.h = DOMAIN heap
  /\ Cardinality({s \in Slots(tree) : Slot(tree, s) = gone}) = 1
  /\ \A s \in Slots(tree) :
       s[1] # gone => Slot(r, s) = IF Slot(tree, s) = gone THEN put ELSE Slot(tree, s)
  /\ \A m \in Nodes \ {gone} :
       r.h[m].value = IF m = n THEN heap[gone].value ELSE heap[m].value

\* What Remove(k) does to the links and values of the tree as it is.
RemoveInPlace(k) ==
  LET n == bstFind(heap, root, NIL, Probe(k)).target
      r == BSTRemove(tree, Probe(k))
  IN  IF heap[n].left # NIL /\ heap[n].right # NIL
      THEN LET gone == leftmost(heap, heap[n].right)
           IN  /\ gone # n
               /\ heap[gone].value = Following(VisitInorder(heap, root), heap[n].value)
               /\ RemoveUnlinks(n, gone, heap[gone].right, r)
      ELSE RemoveUnlinks(n, n, IF heap[n].left = NIL THEN heap[n].right ELSE heap[n].left, r)

\* What Add(v) does to the links and values of the tree as it is.
AddAttaches(v) ==
  LET a   == BSTAdd(tree, v)
      new == Len(heap) + 1
      changed == {s \in Slots(tree) : Slot(a, s) # Slot(tree, s)}
  IN  IF BSTContains(tree, v)
      THEN /\ changed = {} /\ DOMAIN a.h = DOMAIN heap
           /\ \A m \in Nodes : a.h[m].value = IF Equal(v, heap[m].value) THEN v ELSE heap[m].value
      ELSE /\ DOMAIN a.h = 1..new
           /\ a.h[new].value = v /\ a.h[new].left = NIL /\ a.h[new].right = NIL
           /\ Cardinality(changed) = 1
           /\ \A s \in changed : Slot(tree, s) = NIL /\ Slot(a, s) = new
           /\ \A m \in Nodes : a.h[m].value = heap[m].value

\* C29: BinarySearchTree.Remove of a value whose node has two children keeps
\* the node, gives it the value of its inorder successor, the leftmost node
\* of its right subtree, and puts the successor's right subtree in the link
\* that held the successor's node; a node with at most one child is replaced
\* by its child, or by nothing, in the link that held it; no other link and
\* no other value changes; Add changes one nil link into a new leaf, or, for
\* a value already stored, no link.
C29_BSTRemoveInPlace ==
  kind = "BST" =>
    /\ \A k \in Keys : BSTContains(tree, Probe(k)) => RemoveInPlace(k)
    /\ \A k \in Keys : \A p \in Payloads : AddAttaches(KeyValue(k, p))

\* C29: a binary search tree with a node of two children whose successor is
\* not its right child and has a right subtree of its own.
C29_Witness ==
  /\ kind = "BST"
  /\ \E n \in Nodes :
       /\ heap[n].left # NIL /\ heap[n].right # NIL
       /\ leftmost(heap, heap[n].right) # heap[n].right
       /\ heap[leftmost(heap, heap[n].right)].right # NIL
\* The nodes of a 2-3 tree: those reached from its root through the links
\* their node types use.
Members(t) == Range(reachable("T23", FALSE, t.h, <<t.root>>, <<>>))

\* The trees an Add or a Remove can return from the tree as it is.
T23Returns ==
  {T23Remove(tree, Probe(k)) : k \in Keys}
    \cup {T23Add(tree, KeyValue(k, p)) : k \in Keys, p \in Payloads}

\* No node of the tree is a 1-node, a leaf has no link, and an internal node
\* has a left and a mid child in the tree and, when it is a 3-node, a right
\* child in the tree, all different.
WellFormed(t) ==
  LET M == Members(t) IN
  \A n \in M :
    /\ t.h[n].nodeType \in {2, 3}
    /\ isLeaf(t.h, n) => t.h[n].mid = NIL /\ t.h[n].right = NIL
    /\ ~isLeaf(t.h, n) =>
         /\ t.h[n].left \in M /\ t.h[n].mid \in M
         /\ t.h[n].left # t.h[n].mid
         /\ t.h[n].nodeType = 3 => t.h[n].right \in M \ {t.h[n].left, t.h[n].mid}

\* The right field of an internal node points to a node of the tree exactly
\* when the node is a 3-node.
RightIffThree(t) ==
  LET M == Members(t) IN
  \A n \in M : ~isLeaf(t.h, n) => (t.h[n].nodeType = 3 <=> t.h[n].right \in M)

\* C30: when an Add or a Remove of a TwoThreeTree returns, no node of the
\* tree is a 1-node: every one has nodeType 2 or 3, a leaf has no children,
\* and an internal node has a left and a mid child and, exactly when it is a
\* 3-node, a right field that points to a node of the tree.
C30_T23NoOneNode ==
  kind = "T23" => \A t \in T23Returns \cup {tree} : WellFormed(t) /\ RightIffThree(t)

\* C30, by node type: when an Add or a Remove of a TwoThreeTree returns,
\* every node of the tree has nodeType 2 or 3, a leaf has no children, and an
\* internal node has a left and a mid child and, when it is a 3-node, a right
\* child, all of them different nodes of the tree; what the right field of a
\* 2-node holds is left open.
C30_T23NoOneNodeByType ==
  kind = "T23" => \A t \in T23Returns \cup {tree} : WellFormed(t)

\* C30: a 2-3 tree of height 1 from which one Remove returns with a 2-node
\* root whose right field is its mid child, and another with a 2-node root
\* whose right field points to a 1-node that is no longer in the tree.
C30_Witness ==
  /\ kind = "T23" /\ root # NIL /\ ~isLeaf(heap, root)
  /\ \E t \in T23Returns :
       /\ t.root = root /\ t.h[root].nodeType = 2
       /\ t.h[root].right = t.h[root].mid
  /\ \E t \in T23Returns :
       /\ t.root = root /\ t.h[root].nodeType = 2
       /\ t.h[root].right \notin Members(t) \cup {NIL}
       /\ t.h[t.h[root].right].nodeType = 1
\* The tree with every node that is not a 3-node cleared of value2 and right.
Stripped(t) == [t EXCEPT !.h = [i \in DOMAIN t.h |-> live("T23", t.h[i])]]

\* Two trees are the same but for the value2 and right of nodes that are not
\* 3-nodes.
SameButLeftovers(a, b) == collect("T23", FALSE, a) = collect("T23", FALSE, b)

\* In every node of the tree value2 is set and, below a leaf excepted, right
\* is set exactly when the node is a 3-node.
FieldsMatchType(t) ==
  \A n \in Members(t) :
    /\ t.h[n].nodeType = 3 <=> t.h[n].value2 # NilValue
    /\ IF isLeaf(t.h, n) THEN t.h[n].right = NIL
       ELSE t.h[n].nodeType = 3 <=> t.h[n].right # NIL

\* Every 3-node of the tree has its value2 and, unless a leaf, its right
\* child.
ThreeNodesFull(t) ==
  \A n \in Members(t) :
    t.h[n].nodeType = 3 =>
      /\ t.h[n].value2 # NilValue
      /\ isLeaf(t.h, n) \/ t.h[n].right # NIL

\* No Get, Visit, Height, Add or Remove reads what a node that is not a
\* 3-node holds in value2 and right.
LeftoversUnread(t) ==
  LET s == Stripped(t) IN
  /\ T23Visit(t.h, t.root) = T23Visit(s.h, t.root)
  /\ T23Height(t.h, t.root) = T23Height(s.h, t.root)
  /\ \A k \in Keys :
       /\ T23Get(t, Probe(k)) = T23Get(s, Probe(k))
       /\ SameButLeftovers(T23Remove(t, Probe(k)), T23Remove(s, Probe(k)))
       /\ \A p \in Payloads :
            SameButLeftovers(T23Add(t, KeyValue(k, p)), T23Add(s, KeyValue(k, p)))

descent(h, r, v, target, which) ==
  IF target # NIL THEN [c |-> h[r].left, target |-> target, which |-> which]
  ELSE IF Less(v, h[r].value1) THEN [c |-> h[r].left, target |-> NIL, which |-> 0]
  ELSE IF Equal(v, h[r].value1) THEN [c |-> h[r].mid, target |-> r, which |-> 1]
  ELSE IF h[r].nodeType = 2 \/ Less(v, h[r].value2)
  THEN [c |-> h[r].mid, target |-> NIL, which |-> 0]
  ELSE IF Equal(v, h[r].value2) THEN [c |-> h[r].right, target |-> r, which |-> 2]
  ELSE [c |-> h[r].right, target |-> NIL, which |-> 0]

\* The internal nodes at which twoThreeNode.remove reaches its repair
\* section, each with the heap the removal below it has left.
RECURSIVE t23repairs(_, _, _, _, _)
t23repairs(h, r, v, target, which) ==
  IF isLeaf(h, r) THEN {}
  ELSE LET d == descent(h, r, v, target, which)
       IN  t23repairs(h, d.c, v, d.target, d.which)
             \cup {[h |-> t23remove(h, d.c, v, d.target, d.which).h, r |-> r]}

\* The repair sections reached by the Removes that can be made on the tree
\* as it is.
RepairsNow ==
  IF root = NIL THEN {}
  ELSE UNION {t23repairs(heap, root, Probe(k), NIL, 0) : k \in Keys}

\* The repair section of remove at r.
Repaired(c) == fixRight(fixMid(fixLeft(c.h, c.r), c.r), c.r)

\* C32: a TwoThreeTree Add changes Height() by 0 or +1, by +1 only when the
\* split reaches the root and a new root is made; a Remove changes it by 0 or
\* -1, by -1 only when the root is left as a 1-node; no repair changes the
\* depth of the leaves below the node it is made at, so a borrow or a fold
\* never changes the height.
C32_T23HeightSteps ==
  kind = "T23" =>
    /\ \A k \in Keys : \A p \in Payloads :
         LET a == T23Add(tree, KeyValue(k, p))
             d == T23Height(a.h, a.root) - T23Height(heap, root)
         IN  /\ d \in {0, 1}
             /\ d = 1 => /\ root # NIL /\ heap[root].nodeType = 3
                         /\ a.root \notin DOMAIN heap
                         /\ a.h[a.root].nodeType = 2
    /\ \A k \in Keys :
         LET r == T23Remove(tree, Probe(k))
             d == T23Height(r.h, r.root) - T23Height(heap, root)
         IN  /\ d \in {0, -1}
             /\ d = -1 => r.h[root].nodeType = 1 /\ r.root = r.h[root].left
    /\ \A c \in RepairsNow :
         /\ leafDepths(Repaired(c), c.r, 0) = leafDepths(c.h, c.r, 0)
         /\ t23height(Repaired(c), c.r) = t23height(c.h, c.r)

\* C32: a 2-3 tree of height 1 on which one Add splits the root and makes a
\* new one, and one Remove is repaired at the root by a borrow or a fold.
C32_Witness ==
  /\ kind = "T23" /\ root # NIL /\ T23Height(heap, root) = 1
  /\ \E k \in Keys : \E p \in Payloads :
       T23Height(T23Add(tree, KeyValue(k, p)).h, T23Add(tree, KeyValue(k, p)).root) = 2
  /\ \E c \in RepairsNow :
       /\ Repaired(c) # c.h /\ Repaired(c)[c.r].nodeType # 1
\* The children of r, by its node type, that are 1-nodes.
Underflowed(h, r) == {c \in children(h, r) : h[c].nodeType = 1}

\* The repair made at a call of the repair section, told by what the rule
\* says of the node and its children before it.
RepairDue(c) ==
  IF Underflowed(c.h, c.r) = {} THEN "none"
  ELSE IF \E s \in children(c.h, c.r) : c.h[s].nodeType = 3 THEN "borrow"
  ELSE IF c.h[c.r].nodeType = 3 THEN "fold"
  ELSE "merge"

\* What the repair made: the kind of r and of its children after it.
RepairMade(c) ==
  LET after == Repaired(c)
      kids  == {after[s].nodeType : s \in children(after, c.r)}
  IN  IF after = c.h THEN "none"
      ELSE IF after[c.r].nodeType = c.h[c.r].nodeType /\ kids \subseteq {2, 3}
      THEN "borrow"
      ELSE IF c.h[c.r].nodeType = 3 /\ after[c.r].nodeType = 2 /\ kids = {2, 3}
      THEN "fold"
      ELSE IF c.h[c.r].nodeType = 2 /\ after[c.r].nodeType = 1 /\ kids = {3}
      THEN "merge"
      ELSE "other"

\* C33: when a child of r is left as a 1-node during a TwoThreeTree Remove,
\* the repair is a borrow, r keeping its kind and its children, whenever a
\* sibling under r is a 3-node; otherwise, r being a 3-node, a fold into a
\* 2-node sibling that leaves r a 2-node; and only when r is a 2-node with a
\* 2-node for its other child a merge into one 3-node child, r being left a
\* 1-node.
C33_T23RepairOrder ==
  kind = "T23" =>
    \A c \in RepairsNow :
      /\ Cardinality(Underflowed(c.h, c.r)) <= 1
      /\ RepairMade(c) = RepairDue(c)
      /\ Underflowed(Repaired(c), c.r) = {}

\* C33: a 2-3 tree of height 2 on which the Removes that can be made are
\* repaired by a borrow, by a fold and by a merge, the merge below the root.
C33_Witness ==
  /\ kind = "T23" /\ root # NIL /\ T23Height(heap, root) = 2
  /\ {"borrow", "fold", "merge"} \subseteq {RepairMade(c) : c \in RepairsNow}
  /\ \E c \in RepairsNow : c.r # root /\ RepairMade(c) = "merge"
\* The child links of node n that belong to its kind, nil ones left out, each
\* as the pair of n and the place of the link in n.
ChildLinks(k, h, n) ==
  {<<n, i>> : i \in {j \in 1..Len(links(k, live(k, h[n]))) : links(k, live(k, h[n]))[j] # NIL}}

\* The node a child link points to.
Child(k, h, s) == links(k, live(k, h[s[1]]))[s[2]]

\* The nodes below n: those reached from its children.
Below(k, h, n) == Range(reachable(k, FALSE, h, links(k, live(k, h[n])), <<>>))

\* The nodes reached from the root through the child links of their kinds
\* form a tree.
TreeShaped(k, t) ==
  LET M == Range(reachable(k, FALSE, t.h, <<t.root>>, <<>>))
      S == UNION {ChildLinks(k, t.h, n) : n \in M}
  IN  /\ \A a \in S : \A b \in S : Child(k, t.h, a) = Child(k, t.h, b) => a = b
      /\ \A a \in S : Child(k, t.h, a) # t.root
      /\ \A n \in M : n \notin Below(k, t.h, n)
      /\ Cardinality(M) = IF t.root = NIL THEN 0 ELSE Cardinality(S) + 1

\* The number of values the nodes of the tree hold.
Values(k, t) ==
  LET M == Range(reachable(k, FALSE, t.h, <<t.root>>, <<>>))
  IN  Cardinality(M) + Cardinality({n \in M : k = "T23" /\ t.h[n].nodeType = 3})

\* C34: for each of the three trees, after any sequence of Add and Remove
\* calls, the nodes reached from the root through the child links of their
\* kinds form a tree: no node is the child of two nodes or twice of one, and
\* none is reached from itself; so Add, Remove, Get and Visit return, a Visit
\* makes one visit per value and an iterator returns false after one Next
\* per value.
C34_NodesFormTree ==
  /\ TreeShaped(kind, tree)
  /\ \A o \in Orders :
       /\ Len(Visited(o, heap, root)) = Values(kind, tree)
       /\ Len(Iterated(o, heap, root)) = Values(kind, tree)
  /\ \A k \in Keys :
       /\ DoGet(kind, tree, Probe(k)).found = (stored[k] # 0)
       /\ DoRemove(kind, tree, Probe(k)).count <= count
       /\ \A p \in Payloads : DoAdd(kind, tree, KeyValue(k, p)).root # NIL

\* C34: a 2-3 tree from which a Remove returns a tree whose 2-node root has
\* in its right field, which is no child link of a 2-node, its mid child.
C34_Witness ==
  /\ kind = "T23" /\ root # NIL
  /\ \E t \in T23Returns :
       /\ t.root = root /\ t.h[root].nodeType = 2 /\ ~isLeaf(t.h, root)
       /\ t.h[root].right = t.h[root].mid
       /\ Values(kind, t) = count - 1
\* C35: Reset() on a tree iterator (binary preorder, inorder, postorder, 2-3
\* inorder), called after any number of Next() calls, also after Next() has
\* returned false, leaves an iterator whose following Next() calls return the
\* whole traversal from its first value.
C35_ResetRestarts ==
  iter # NoIter =>
    Drain(Reset(iter.it), 2 * Len(iter.it.h) + 1)
      = Visited(iter.it.order, heap, root)

\* C35: an iterator that was reset and has since returned every value of a
\* tree of three or more values, and then false.
C35_Witness ==
  /\ iter # NoIter /\ ~iter.fresh /\ count >= 3
  /\ iter.yielded = Len(Visited(iter.it.order, heap, root))
  /\ iter.last.called /\ ~iter.last.found
\* The nodes of the tree are in h what they are in the tree.
TreeKept(h) == Len(h) >= Len(heap) /\ SubSeq(h, 1, Len(heap)) = heap

\* C36: the read operations of the trees leave the tree's nodes, links,
\* values and count as they are: an iterator, when made and after any
\* number of Next and Reset calls, has the tree's nodes as the tree has
\* them, whatever it has allocated for itself, and so after one more Next or
\* Reset; the 2-3 iterator leaves a 3-node it pops a 3-node; LeftSubtree and
\* RightSubtree only add nodes.  (Size, Empty, Height, Contains, Get,
\* RootValue, Done and the Visit methods assign nothing.)
C36_ReadsKeepTree ==
  /\ \A o \in Orders : NewIterator(o, heap, root).h = heap
  /\ iter # NoIter =>
       /\ TreeKept(iter.it.h)
       /\ TreeKept(IterNext(iter.it).it.h)
       /\ TreeKept(Reset(iter.it).h)
       /\ iter.it.root = root
       /\ IterNext(iter.it).it.root = root
  /\ kind # "T23" =>
       /\ TreeKept(LeftSubtree(tree).h)
       /\ TreeKept(RightSubtree(tree).h)

\* C36: a 2-3 iterator whose next Next pops a 3-node of the tree that is not
\* a leaf and allocates a node for it.
C36_Witness ==
  /\ kind = "T23" /\ iter # NoIter /\ iter.yielded >= 1
  /\ ~Empty(iter.it.stack)
  /\ Head(iter.it.stack) <= Len(heap)
  /\ heap[Head(iter.it.stack)].nodeType = 3
  /\ ~isLeaf(heap, Head(iter.it.stack))
  /\ Len(IterNext(iter.it).it.h) > Len(iter.it.h)
\* What iterator i has still to return if it is the only iterator: the
\* traversal of its order from the value after those it has returned.
Remaining(i) ==
  SubSeq(Visited(cont.its[i].order, heap, root), cont.its[i].pos + 1,
         Len(Visited(cont.its[i].order, heap, root)))

\* C37: two external iterators made over the same tree, which is not
\* changed, are independent: however their Next, Done and Reset calls are
\* interleaved, each returns from where it is what it would return as the
\* only iterator, and Done() is true of it exactly when nothing is left.
C37_IteratorsIndependent ==
  cont # NoCont =>
    \A i \in 1..2 :
      /\ Drain(View(cont, i), 2 * Len(cont.its[i].h) + 1) = Remaining(i)
      /\ IterDone(View(cont, i)) = (Remaining(i) = <<>>)
      /\ cont.its[i].stack # cont.its[3 - i].stack

\* C37: two iterators of the same order over a tree of three or more values,
\* the first of which has returned two values and the second one.
C37_Witness ==
  /\ cont # NoCont /\ count >= 3
  /\ cont.its[1].order = cont.its[2].order
  /\ cont.its[1].pos = 2 /\ cont.its[2].pos = 1
\* The three trees that received the same calls.
Three == <<tree, cont.avl, cont.t23>>

ThreeKinds == <<"BST", "AVL", "T23">>

\* C38: after any sequence of Add and Remove calls made with the same
\* arguments on a BinarySearchTree, an AVLTree and a TwoThreeTree, the inorder
\* traversals of the three trees are the same sequence of values, and for
\* every key Get returns the same (value, ok) and Contains the same answer
\* on the three trees.
C38_SameContents ==
  cont # NoCont /\ cont.type = "trees" =>
    \A i \in 2..3 :
      /\ Inorder(ThreeKinds[i], Three[i]) = Inorder("BST", tree)
      /\ \A k \in Keys :
           /\ SameResult(DoGet(ThreeKinds[i], Three[i], Probe(k)),
                         DoGet("BST", tree, Probe(k)))
           /\ DoContains(ThreeKinds[i], Three[i], Probe(k))
                = DoContains("BST", tree, Probe(k))

\* The three trees hold three values or more after a Remove that found its
\* key and an Add that replaced a value, and they are shaped differently: the
\* AVLTree's root is not the BinarySearchTree's and the TwoThreeTree has a
\* 3-node.
C38_Witness ==
  /\ cont # NoCont /\ cont.type = "trees"
  /\ op = "Remove"
  /\ Len(Inorder("BST", tree)) >= 3
  /\ \E k \in Keys : stored[k] = 2
  /\ heap[root].value # cont.avl.h[cont.avl.root].value
  /\ \E n \in DOMAIN cont.t23.h : cont.t23.h[n].nodeType = 3
\* A rotation at node that turned heap h into after allocated nothing: the
\* heap holds the node objects it held and the same ones are in the subtree.
AllocatesNothing(h, node, after) ==
  /\ Len(after) = Len(h)
  /\ under(after, node) = under(h, node)

\* A rotation at node that turned heap h into after allocated one node
\* object, put it in the subtree, and left one node object of the subtree
\* other than node out of it; the other node objects of the subtree are
\* the ones that were there.
SwapsOneNode(h, node, after) ==
  /\ Len(after) = Len(h) + 1
  /\ Len(h) + 1 \in under(after, node)
  /\ \E d \in under(h, node) \ {node} :
       under(after, node) = (under(h, node) \ {d}) \cup {Len(h) + 1}

\* The calls of rebalance that rotate.
RotatingNow == {c \in RebalancesNow : rotationChosen(c.h, c.node) # "none"}

\* C39 as stated: an AVL rotation, single or double, allocates no node, so
\* the set of node objects reachable from the root is the same before and
\* after it.
C39_RotationAllocatesNothing ==
  kind = "AVL" =>
    /\ \A n \in Nodes : \A after \in Rotations(heap, n) :
         Len(after) = Len(heap) /\ under(after, root) = under(heap, root)
    /\ \A c \in RotatingNow : AllocatesNothing(c.h, c.node, Rotated(c))

\* C39 as the code has it: an AVL rotation, single or double, keeps the node
\* it is called on as the root of the subtree and reassigns its value and
\* links, but it allocates one node with newAVLNode for the demoted value and
\* drops the node whose value was promoted; so the set of node objects
\* reachable from the root changes by exactly one node in and one node out,
\* and the number of nodes stays the same.
C39_RotationSwapsOneNode ==
  kind = "AVL" =>
    /\ \A n \in Nodes : \A after \in Rotations(heap, n) : SwapsOneNode(heap, n, after)
    /\ \A c \in RotatingNow : SwapsOneNode(c.h, c.node, Rotated(c))

\* An AVL tree on which a call that can be made rotates twice at a node below
\* the root, and another makes a single rotation at the root.
C39_Witness ==
  /\ kind = "AVL" /\ root # NIL
  /\ \E c \in RotatingNow :
       c.node # root /\ rotationChosen(c.h, c.node) \in {"LR", "RL"}
  /\ \E c \in RotatingNow :
       c.node = root /\ rotationChosen(c.h, c.node) \in {"L", "R"}

====
